---------------------------- MODULE Spec2Model ----------------------------
(*
  Model of the orientation-normalisation and targeting-guidance engine of
  project-helios-client.

  Numbers.  The program computes on JavaScript numbers that stand for degrees
  and milliseconds.  The model uses a fixed-point grid: an angle is an integer
  count of "ticks", Scale ticks to the degree (Deg(d) is d degrees), and a
  time is an integer count of milliseconds.  The JavaScript operators are
  modelled by what they do on that grid: JsMod is the truncated remainder of
  `%` (sign of the dividend), not the floored modulus of TLA+.  Rounding of
  IEEE doubles below the grid and the sign of zero are not represented.
  NaN is one value outside the grid: the Js and Math operators below give
  NaN when an operand is NaN, and every comparison with NaN is false.
*)
EXTENDS Integers, Sequences, FiniteSets, TLC

VARIABLES
  call,                \* pure-function harness: the call being made
  ret,                 \* pure-function harness: its return value
  storage,             \* localStorage['helios_level_calibration']
  levelOffsets,        \* useDeviceOrientation: offsets read once on mount
  permissionGranted,   \* useDeviceOrientation permissionGranted
  sensorError,         \* useDeviceOrientation error
  rawData,             \* useDeviceOrientation rawData
  sensorData,          \* useDeviceOrientation data (memo): level-corrected sample
  coordinates,         \* useGeoLocation coordinates
  targetPosition,      \* SolarTracker targetPosition
  normalizedSensor,    \* SolarTracker normalizedSensor (memo)
  magneticCorrection,  \* SolarTracker magneticCorrection (memo)
  correctedSensor,     \* SolarTracker correctedSensor (memo)
  guidance,            \* SolarTracker guidance (memo)
  showLevelCalibration,\* SolarTracker showLevelCalibration
  calibration,         \* LevelCalibration: step and the sample its timer holds
  isAudioEnabled,      \* SolarTracker isAudioEnabled
  audioContext,        \* audioContextRef.current # null
  lockTone,            \* oscillatorRef.current # null (lock tone playing)
  lastClickTime,       \* lastClickTimeRef.current
  feedback,            \* branch taken by the last run of the audio effect
  clicked,             \* the last run of the audio effect called playClick
  now,                 \* Date.now(), relative to page load + T0
  isTimerEnabled,      \* SolarTracker isTimerEnabled
  countdown,           \* SolarTracker countdown
  pendingMeasurement,  \* SolarTracker pendingMeasurement
  error,               \* SolarTracker error
  captureAt,           \* history: raw tilt the last stored capture was made at
  calibrationProgress, \* figure-8 session: accumulated energy, or none
  isSubmitting,        \* SolarTracker isSubmitting
  snapshot,            \* SolarTracker snapshot
  saveRequest,         \* saveMeasurement call awaited by handleSubmit, with its closure
  calibratedFlag,      \* localStorage['helios_calibrated'] is present
  isVisible,           \* CalibrationWizard isVisible
  step,                \* CalibrationWizard step
  devTapCount,         \* SolarTracker devTapCount
  lastTapTime,         \* SolarTracker lastTapTime
  cameraPhase,         \* useCameraStream: component not yet mounted, mounted, unmounted
  mountedRef,          \* useCameraStream mountedRef.current
  streamRef,           \* useCameraStream streamRef.current: a stream, or none
  cameraStream,        \* useCameraStream stream
  cameraError,         \* useCameraStream error
  pendingGetUserMedia, \* getUserMedia calls awaited by initCamera
  getUserMediaCalls,   \* getUserMedia calls made so far
  mediaStreams         \* the streams getUserMedia returned: state of each one's tracks

harness == <<call, ret>>
hook    == <<storage, levelOffsets, permissionGranted, sensorError, rawData>>
tracker == <<coordinates, targetPosition>>
memo    == <<sensorData, normalizedSensor, magneticCorrection, correctedSensor,
             guidance>>
levelCal == <<showLevelCalibration, calibration>>
audio   == <<isAudioEnabled, audioContext, lockTone, lastClickTime, feedback,
             clicked, now>>
capture == <<isTimerEnabled, countdown, pendingMeasurement, error>>
figure8 == <<calibrationProgress>>
submit  == <<isSubmitting, snapshot, saveRequest>>
wizard  == <<calibratedFlag, isVisible, step>>
taps    == <<devTapCount, lastTapTime>>
camera  == <<cameraPhase, mountedRef, streamRef, cameraStream, cameraError,
             pendingGetUserMedia, getUserMediaCalls, mediaStreams>>
rest    == <<figure8, submit, wizard, taps, camera>>
vars    == <<harness, hook, tracker, memo, levelCal, audio, capture, captureAt, rest>>

\* JavaScript null/undefined for an object-valued slot.  Every optional value of
\* the model is a record, so that it can be compared with NULL.
NULL == [null |-> TRUE]

\* a number held in a slot that may also be null
Num(n) == [num |-> n]

-----------------------------------------------------------------------------
(* Number grid *)

\* ticks per degree
Scale == 10

Deg(d) == d * Scale
Full == Deg(360)

Abs(x) == IF x < 0 THEN -x ELSE x
Max2(a, b) == IF a >= b THEN a ELSE b
Min2(a, b) == IF a <= b THEN a ELSE b

\* the number NaN: a value no angle or time of the model takes
NaN == -1000000000

\* JavaScript a % b for b > 0: the remainder takes the sign of the dividend.
JsMod(a, b) == IF a = NaN THEN NaN ELSE IF a >= 0 THEN a % b ELSE -((-a) % b)

\* JavaScript +, -, <, <=, >, Math.abs and Math.max
JsAdd(a, b) == IF a = NaN \/ b = NaN THEN NaN ELSE a + b
JsSub(a, b) == IF a = NaN \/ b = NaN THEN NaN ELSE a - b
JsLt(a, b) == a # NaN /\ b # NaN /\ a < b
JsLe(a, b) == a # NaN /\ b # NaN /\ a <= b
JsGt(a, b) == a # NaN /\ b # NaN /\ a > b
MathAbs(x) == IF x = NaN THEN NaN ELSE Abs(x)
MathMax(a, b) == IF a = NaN \/ b = NaN THEN NaN ELSE Max2(a, b)

-----------------------------------------------------------------------------
(* sensorMath: normalizeOrientation and getShortestAngle *)

normalizeOrientation_NoNegativeFold(alpha, beta, gamma) ==
  [azimuth  |-> JsMod(alpha, Full),
   altitude |-> Max2(Deg(-90), Min2(Deg(90), beta - Deg(90)))]

normalizeOrientation_WrapAltitude(alpha, beta, gamma) ==
  [azimuth  |-> LET a == JsMod(alpha, Full) IN IF a < 0 THEN a + Full ELSE a,
   altitude |-> LET t == beta - Deg(90) IN
                IF t < Deg(-90) THEN t + Deg(180)
                ELSE IF t > Deg(90) THEN t - Deg(180) ELSE t]

normalizeOrientation(alpha, beta, gamma) ==
  LET a0 == JsMod(alpha, Full)
      azimuth == IF JsLt(a0, 0) THEN JsAdd(a0, Full) ELSE a0
      t == JsSub(beta, Deg(90))
      altitude == IF JsLt(t, Deg(-90)) THEN Deg(-90)
                  ELSE IF JsGt(t, Deg(90)) THEN Deg(90) ELSE t
  IN [azimuth |-> azimuth, altitude |-> altitude]

getShortestAngle_Bias180(target, current) ==
  JsMod(target - current + Deg(180), Full) - Deg(180)

getShortestAngle_Swapped(target, current) ==
  JsMod(current - target + Deg(540), Full) - Deg(180)

getShortestAngle_NoWrap(target, current) ==
  target - current

getShortestAngle_SignFollowsOrder(target, current) ==
  LET d == JsSub(JsMod(JsAdd(JsSub(target, current), Deg(540)), Full), Deg(180))
  IN IF d = -Deg(180) /\ target > current THEN Deg(180) ELSE d

getShortestAngle(target, current) ==
  JsSub(JsMod(JsAdd(JsSub(target, current), Deg(540)), Full), Deg(180))

-----------------------------------------------------------------------------
(* magnetic: getTrueNorth.  The declination is info.decl of the geomagnetism
   model at (lat, lon), an external table: the caller of the model passes the
   value the table holds for the location. *)

getTrueNorth_NoFold(magneticAzimuth, declination) ==
  [trueAzimuth |-> JsMod(magneticAzimuth + declination, Full),
   declination |-> declination]

getTrueNorth(magneticAzimuth, declination) ==
  LET t == JsMod(JsAdd(magneticAzimuth, declination), Full)
  IN [trueAzimuth |-> IF JsLt(t, 0) THEN JsAdd(t, Full) ELSE t,
      declination |-> declination]

-----------------------------------------------------------------------------
(* useDeviceOrientation, as SolarTracker mounts it *)

\* what localStorage can hold under the key: nothing, text JSON.parse rejects
\* (or that parses to null), or a record written by saveLevelCalibration
ABSENT  == [kind |-> "absent"]
CORRUPT == [kind |-> "corrupt"]

saveLevelCalibration(offsetBeta, offsetGamma) ==
  [kind |-> "record", offsetBeta |-> offsetBeta, offsetGamma |-> offsetGamma]

getLevelOffsets_Negated(stored) ==
  IF stored = ABSENT \/ stored = CORRUPT
  THEN [offsetBeta |-> 0, offsetGamma |-> 0]
  ELSE [offsetBeta |-> -stored.offsetBeta, offsetGamma |-> -stored.offsetGamma]

getLevelOffsets(stored) ==
  IF stored = ABSENT THEN [offsetBeta |-> 0, offsetGamma |-> 0]
  ELSE IF stored = CORRUPT THEN [offsetBeta |-> 0, offsetGamma |-> 0]
  ELSE [offsetBeta |-> stored.offsetBeta, offsetGamma |-> stored.offsetGamma]

\* e.webkitCompassHeading ?? e.alpha ?? 0, e.beta ?? 0, e.gamma ?? 0
Coalesce(a, b) == IF a # NULL THEN a ELSE b

sample(e) ==
  [alpha |-> Coalesce(e.webkitCompassHeading, Coalesce(e.alpha, Num(0))).num,
   beta  |-> Coalesce(e.beta, Num(0)).num,
   gamma |-> Coalesce(e.gamma, Num(0)).num]

\* the level-corrected sample the hook returns
dataOf_ClampsCorrected(raw, offsets) ==
  IF raw = NULL THEN NULL
  ELSE [alpha |-> raw.alpha,
        beta  |-> Max2(0, Min2(Deg(180), raw.beta - offsets.offsetBeta)),
        gamma |-> raw.gamma - offsets.offsetGamma]

dataOf(raw, offsets) ==
  IF raw = NULL THEN NULL
  ELSE [alpha |-> raw.alpha,
        beta  |-> JsSub(raw.beta, offsets.offsetBeta),
        gamma |-> JsSub(raw.gamma, offsets.offsetGamma)]


-----------------------------------------------------------------------------
(* SolarTracker: the memoised pipeline, recomputed on every render *)

LOCK_THRESHOLD == 5
FINE_THRESHOLD == 15
CAPTURE_THRESHOLD == 20
COUNTDOWN_FROM == 5

\* info.decl of the geomagnetism model at the coordinates (external table)
declinationAt(c) == c.decl

normalizedSensorOf(sd) ==
  IF sd = NULL THEN NULL
  ELSE normalizeOrientation(sd.alpha, sd.beta, sd.gamma)

magneticCorrectionOf(ns, c) ==
  IF ns = NULL \/ c = NULL THEN NULL
  ELSE getTrueNorth(ns.azimuth, declinationAt(c))

correctedSensorOf_DeclinationOnAltitude(ns, mc) ==
  IF ns = NULL THEN NULL
  ELSE IF mc = NULL THEN ns
  ELSE [azimuth |-> mc.trueAzimuth,
        altitude |-> JsAdd(ns.altitude, mc.declination)]

correctedSensorOf_IgnoresCorrection(ns, mc) ==
  ns

correctedSensorOf(ns, mc) ==
  IF ns = NULL THEN NULL
  ELSE IF mc = NULL THEN ns
  ELSE [azimuth |-> mc.trueAzimuth, altitude |-> ns.altitude]

guidanceOf_LockOnAzimuthOnly(cs, tp) ==
  IF cs = NULL \/ tp = NULL THEN NULL
  ELSE
    LET azimuthDelta  == getShortestAngle(tp.azimuth, cs.azimuth)
        altitudeDelta == tp.altitude - cs.altitude
        maxDelta == Max2(Abs(azimuthDelta), Abs(altitudeDelta))
        azimuthLocked  == Abs(azimuthDelta) <= Deg(LOCK_THRESHOLD)
    IN [azimuthDelta |-> azimuthDelta, altitudeDelta |-> altitudeDelta,
        needsRight |-> azimuthDelta > Deg(FINE_THRESHOLD),
        needsLeft  |-> azimuthDelta < -Deg(FINE_THRESHOLD),
        needsUp    |-> altitudeDelta > Deg(FINE_THRESHOLD),
        needsDown  |-> altitudeDelta < -Deg(FINE_THRESHOLD),
        azimuthLocked |-> azimuthLocked, altitudeLocked |-> azimuthLocked,
        fullyLocked |-> azimuthLocked,
        isCoarse |-> maxDelta > Deg(FINE_THRESHOLD),
        isFine |-> maxDelta <= Deg(FINE_THRESHOLD) /\ maxDelta > Deg(LOCK_THRESHOLD),
        canCapture |-> maxDelta <= Deg(CAPTURE_THRESHOLD)]

guidanceOf_FlagsOnLockThreshold(cs, tp) ==
  IF cs = NULL \/ tp = NULL THEN NULL
  ELSE
    LET azimuthDelta  == getShortestAngle(tp.azimuth, cs.azimuth)
        altitudeDelta == tp.altitude - cs.altitude
        maxDelta == Max2(Abs(azimuthDelta), Abs(altitudeDelta))
        azimuthLocked  == Abs(azimuthDelta) <= Deg(LOCK_THRESHOLD)
        altitudeLocked == Abs(altitudeDelta) <= Deg(LOCK_THRESHOLD)
    IN [azimuthDelta |-> azimuthDelta, altitudeDelta |-> altitudeDelta,
        needsRight |-> azimuthDelta > Deg(LOCK_THRESHOLD),
        needsLeft  |-> azimuthDelta < -Deg(LOCK_THRESHOLD),
        needsUp    |-> altitudeDelta > Deg(LOCK_THRESHOLD),
        needsDown  |-> altitudeDelta < -Deg(LOCK_THRESHOLD),
        azimuthLocked |-> azimuthLocked, altitudeLocked |-> altitudeLocked,
        fullyLocked |-> azimuthLocked /\ altitudeLocked,
        isCoarse |-> maxDelta > Deg(FINE_THRESHOLD),
        isFine |-> maxDelta <= Deg(FINE_THRESHOLD) /\ maxDelta > Deg(LOCK_THRESHOLD),
        canCapture |-> maxDelta <= Deg(CAPTURE_THRESHOLD)]

guidanceOf_DefaultTarget(cs, tp) ==
  IF cs = NULL THEN NULL
  ELSE
    LET target == IF tp = NULL THEN [azimuth |-> 0, altitude |-> 0] ELSE tp
        azimuthDelta  == getShortestAngle(target.azimuth, cs.azimuth)
        altitudeDelta == JsSub(target.altitude, cs.altitude)
        maxDelta == MathMax(MathAbs(azimuthDelta), MathAbs(altitudeDelta))
        azimuthLocked  == JsLe(MathAbs(azimuthDelta), Deg(LOCK_THRESHOLD))
        altitudeLocked == JsLe(MathAbs(altitudeDelta), Deg(LOCK_THRESHOLD))
    IN [azimuthDelta |-> azimuthDelta, altitudeDelta |-> altitudeDelta,
        needsRight |-> JsGt(azimuthDelta, Deg(FINE_THRESHOLD)),
        needsLeft  |-> JsLt(azimuthDelta, -Deg(FINE_THRESHOLD)),
        needsUp    |-> JsGt(altitudeDelta, Deg(FINE_THRESHOLD)),
        needsDown  |-> JsLt(altitudeDelta, -Deg(FINE_THRESHOLD)),
        azimuthLocked |-> azimuthLocked, altitudeLocked |-> altitudeLocked,
        fullyLocked |-> azimuthLocked /\ altitudeLocked,
        isCoarse |-> JsGt(maxDelta, Deg(FINE_THRESHOLD)),
        isFine |-> JsLe(maxDelta, Deg(FINE_THRESHOLD))
                   /\ JsGt(maxDelta, Deg(LOCK_THRESHOLD)),
        canCapture |-> JsLe(maxDelta, Deg(CAPTURE_THRESHOLD))]

guidanceOf_SignedAltitude(cs, tp) ==
  IF cs = NULL \/ tp = NULL THEN NULL
  ELSE
    LET azimuthDelta  == getShortestAngle(tp.azimuth, cs.azimuth)
        altitudeDelta == JsSub(tp.altitude, cs.altitude)
        absAzimuth  == MathAbs(azimuthDelta)
        absAltitude == altitudeDelta
        maxDelta == MathMax(absAzimuth, absAltitude)
        azimuthLocked  == JsLe(absAzimuth, Deg(LOCK_THRESHOLD))
        altitudeLocked == JsLe(absAltitude, Deg(LOCK_THRESHOLD))
    IN [azimuthDelta |-> azimuthDelta, altitudeDelta |-> altitudeDelta,
        needsRight |-> JsGt(azimuthDelta, Deg(FINE_THRESHOLD)),
        needsLeft  |-> JsLt(azimuthDelta, -Deg(FINE_THRESHOLD)),
        needsUp    |-> JsGt(altitudeDelta, Deg(FINE_THRESHOLD)),
        needsDown  |-> JsLt(altitudeDelta, -Deg(FINE_THRESHOLD)),
        azimuthLocked |-> azimuthLocked, altitudeLocked |-> altitudeLocked,
        fullyLocked |-> azimuthLocked /\ altitudeLocked,
        isCoarse |-> JsGt(maxDelta, Deg(FINE_THRESHOLD)),
        isFine |-> JsLe(maxDelta, Deg(FINE_THRESHOLD))
                   /\ JsGt(maxDelta, Deg(LOCK_THRESHOLD)),
        canCapture |-> JsLe(maxDelta, Deg(CAPTURE_THRESHOLD))]

guidanceOf(cs, tp) ==
  IF cs = NULL \/ tp = NULL THEN NULL
  ELSE
    LET azimuthDelta  == getShortestAngle(tp.azimuth, cs.azimuth)
        altitudeDelta == JsSub(tp.altitude, cs.altitude)
        absAzimuth  == MathAbs(azimuthDelta)
        absAltitude == MathAbs(altitudeDelta)
        maxDelta == MathMax(absAzimuth, absAltitude)
        azimuthLocked  == JsLe(absAzimuth, Deg(LOCK_THRESHOLD))
        altitudeLocked == JsLe(absAltitude, Deg(LOCK_THRESHOLD))
    IN [azimuthDelta |-> azimuthDelta, altitudeDelta |-> altitudeDelta,
        needsRight |-> JsGt(azimuthDelta, Deg(FINE_THRESHOLD)),
        needsLeft  |-> JsLt(azimuthDelta, -Deg(FINE_THRESHOLD)),
        needsUp    |-> JsGt(altitudeDelta, Deg(FINE_THRESHOLD)),
        needsDown  |-> JsLt(altitudeDelta, -Deg(FINE_THRESHOLD)),
        azimuthLocked |-> azimuthLocked, altitudeLocked |-> altitudeLocked,
        fullyLocked |-> azimuthLocked /\ altitudeLocked,
        isCoarse |-> JsGt(maxDelta, Deg(FINE_THRESHOLD)),
        isFine |-> JsLe(maxDelta, Deg(FINE_THRESHOLD))
                   /\ JsGt(maxDelta, Deg(LOCK_THRESHOLD)),
        canCapture |-> JsLe(maxDelta, Deg(CAPTURE_THRESHOLD))]

\* a render: every memo is recomputed from the values the handler has set
Render ==
  /\ sensorData' = dataOf(rawData', levelOffsets')
  /\ normalizedSensor' = normalizedSensorOf(sensorData')
  /\ magneticCorrection' = magneticCorrectionOf(normalizedSensor', coordinates')
  /\ correctedSensor' = correctedSensorOf(normalizedSensor', magneticCorrection')
  /\ guidance' = guidanceOf(correctedSensor', targetPosition')


-----------------------------------------------------------------------------
(* SolarTracker: the Geiger-counter audio effect.  It runs after every render
   in which guidance or isAudioEnabled changed; its cleanup (stopLockTone) runs
   first, so the oscillator is off when the body starts.  A render that leaves
   guidance null and isAudioEnabled as it was does not run it, and running it
   there would change nothing. *)

TONE_BELOW == 3
CLICK_UPTO == 20
CLICK_MIN_MS == 100
CLICK_MAX_MS == 1000
CLICK_SPAN_MS == 900

\* Scale times Math.max(100, Math.min(1000, (totalDelta / 20) * 900 + 100)),
\* with totalDelta in ticks: the scaling keeps the interval exact
clickIntervalScaled_NoOffset(totalDelta) ==
  Max2(CLICK_MIN_MS * Scale,
       Min2(CLICK_MAX_MS * Scale, (totalDelta * CLICK_SPAN_MS) \div CLICK_UPTO))

clickIntervalScaled_Inverted(totalDelta) ==
  Max2(CLICK_MIN_MS * Scale,
       Min2(CLICK_MAX_MS * Scale,
            CLICK_MAX_MS * Scale - (totalDelta * CLICK_SPAN_MS) \div CLICK_UPTO))

clickIntervalScaled(totalDelta) ==
  Max2(CLICK_MIN_MS * Scale,
       Min2(CLICK_MAX_MS * Scale,
            (totalDelta * CLICK_SPAN_MS) \div CLICK_UPTO + CLICK_MIN_MS * Scale))

audioEffect_ToneUpToThreshold(g, enabled, ctx, lct, t) ==
  IF ~enabled \/ g = NULL \/ ~ctx
  THEN [lockTone |-> FALSE, lastClickTime |-> lct, feedback |-> "off", clicked |-> FALSE]
  ELSE
    LET totalDelta == Abs(g.azimuthDelta) + Abs(g.altitudeDelta) IN
    IF totalDelta <= Deg(TONE_BELOW)
    THEN [lockTone |-> TRUE, lastClickTime |-> lct, feedback |-> "tone", clicked |-> FALSE]
    ELSE IF totalDelta <= Deg(CLICK_UPTO)
    THEN LET due == (t - lct) * Scale >= clickIntervalScaled(totalDelta) IN
         [lockTone |-> FALSE, lastClickTime |-> IF due THEN t ELSE lct,
          feedback |-> "clicking", clicked |-> due]
    ELSE [lockTone |-> FALSE, lastClickTime |-> lct, feedback |-> "silence", clicked |-> FALSE]

audioEffect_NoThrottle(g, enabled, ctx, lct, t) ==
  IF ~enabled \/ g = NULL \/ ~ctx
  THEN [lockTone |-> FALSE, lastClickTime |-> lct, feedback |-> "off", clicked |-> FALSE]
  ELSE
    LET totalDelta == Abs(g.azimuthDelta) + Abs(g.altitudeDelta) IN
    IF totalDelta < Deg(TONE_BELOW)
    THEN [lockTone |-> TRUE, lastClickTime |-> lct, feedback |-> "tone", clicked |-> FALSE]
    ELSE IF totalDelta <= Deg(CLICK_UPTO)
    THEN [lockTone |-> FALSE, lastClickTime |-> t, feedback |-> "clicking", clicked |-> TRUE]
    ELSE [lockTone |-> FALSE, lastClickTime |-> lct, feedback |-> "silence", clicked |-> FALSE]

audioEffect(g, enabled, ctx, lct, t) ==
  IF ~enabled \/ g = NULL \/ ~ctx
  THEN \* stopLockTone(); return
       [lockTone |-> FALSE, lastClickTime |-> lct, feedback |-> "off", clicked |-> FALSE]
  ELSE
    LET totalDelta == JsAdd(MathAbs(g.azimuthDelta), MathAbs(g.altitudeDelta)) IN
    IF JsLt(totalDelta, Deg(TONE_BELOW))
    THEN \* startLockTone()
         [lockTone |-> TRUE, lastClickTime |-> lct, feedback |-> "tone", clicked |-> FALSE]
    ELSE IF JsLe(totalDelta, Deg(CLICK_UPTO))
    THEN \* stopLockTone(); playClick() when the interval has elapsed
         LET due == (t - lct) * Scale >= clickIntervalScaled(totalDelta) IN
         [lockTone |-> FALSE, lastClickTime |-> IF due THEN t ELSE lct,
          feedback |-> "clicking", clicked |-> due]
    ELSE \* stopLockTone(); silence
         [lockTone |-> FALSE, lastClickTime |-> lct, feedback |-> "silence", clicked |-> FALSE]

\* the effect, run on the state the render produced
RunAudioEffect ==
  \E r \in {audioEffect(guidance', isAudioEnabled', audioContext', lastClickTime, now)} :
  /\ lockTone' = r.lockTone
  /\ lastClickTime' = r.lastClickTime
  /\ feedback' = r.feedback
  /\ clicked' = r.clicked

-----------------------------------------------------------------------------
(* Inputs of the environment *)

\* clock steps of TickMs, MaxTicks of them
TickMs == 500
MaxTicks == 2
\* stored captures in one behaviour
MaxCaptures == 2

\* Date.now() at page load: any time at least CLICK_MAX_MS after the epoch
T0 == CLICK_MAX_MS

NO_ERROR == "null"

Headings == {[webkitCompassHeading |-> Num(Deg(350)), alpha |-> NULL],
             [webkitCompassHeading |-> NULL, alpha |-> Num(Deg(10))],
             [webkitCompassHeading |-> NULL, alpha |-> NULL]}
Betas  == {NULL, Num(Deg(90)), Num(Deg(90) - 1)}
Gammas == {NULL, Num(Deg(1))}

\* deviceorientation events
Events == {[webkitCompassHeading |-> h.webkitCompassHeading, alpha |-> h.alpha,
            beta |-> b, gamma |-> g] : h \in Headings, b \in Betas, g \in Gammas}

\* the events the tracker is driven with: the heading and the front-back tilt
TrackerEvents ==
  {e \in Events : e.gamma = NULL /\ (e.webkitCompassHeading # NULL \/ e.alpha # NULL)}

\* positions watchPosition reports, with the declination the geomagnetic
\* model holds for each
Locations == {[latitude |-> 0, longitude |-> 0, decl |-> 0],
              [latitude |-> 60, longitude |-> 20, decl |-> -Deg(10)]}

\* answers of the solar-position service
Targets == {[azimuth |-> Deg(10), altitude |-> a] : a \in {0, Deg(TONE_BELOW) - 1}}

\* what the page can find in localStorage when it first loads
InitialStorage == {ABSENT, CORRUPT, saveLevelCalibration(Deg(2), Deg(1))}

IDLE == [step |-> "idle"]

-----------------------------------------------------------------------------
(* Initial state: the page has loaded and the components have mounted *)

HarnessIdle == call = NULL /\ ret = NULL

Mounted ==
  /\ levelOffsets = getLevelOffsets(storage)
  /\ permissionGranted = FALSE
  /\ sensorError = NO_ERROR
  /\ rawData = NULL
  /\ sensorData = NULL
  /\ coordinates = NULL
  /\ targetPosition = NULL
  /\ normalizedSensor = NULL
  /\ magneticCorrection = NULL
  /\ correctedSensor = NULL
  /\ guidance = NULL
  /\ showLevelCalibration = FALSE
  /\ calibration = IDLE
  /\ isAudioEnabled = TRUE
  /\ audioContext = FALSE
  /\ lockTone = FALSE
  /\ lastClickTime = 0
  /\ feedback = "off"
  /\ clicked = FALSE
  /\ isTimerEnabled = FALSE
  /\ countdown = NULL
  /\ pendingMeasurement = NULL
  /\ error = NO_ERROR
  /\ calibrationProgress = NULL
  /\ isSubmitting = FALSE
  /\ snapshot = NULL
  /\ saveRequest = NULL
  /\ isVisible = ~calibratedFlag
  /\ step = "intro"
  /\ devTapCount = 0
  /\ lastTapTime = 0
  /\ cameraPhase = "initial"
  /\ mountedRef = TRUE
  /\ streamRef = NULL
  /\ cameraStream = NULL
  /\ cameraError = NO_ERROR
  /\ pendingGetUserMedia = 0
  /\ getUserMediaCalls = 0
  /\ mediaStreams = <<>>

\* the page as first loaded on a device whose one-time wizard was completed
Init ==
  /\ HarnessIdle
  /\ storage \in InitialStorage
  /\ calibratedFlag = TRUE
  /\ Mounted
  /\ now = T0
  /\ captureAt = NULL

-----------------------------------------------------------------------------
(* Actions *)

\* a variant of requestAccess that ignores the answer of the permission prompt
requestAccess_IgnoresAnswer(outcome) ==
  /\ ~permissionGranted
  /\ IF outcome \in {"granted", "noPermissionAPI", "denied"}
     THEN permissionGranted' = TRUE
          /\ sensorError' = IF outcome = "denied"
                            THEN "Permission denied for device orientation"
                            ELSE NO_ERROR
     ELSE permissionGranted' = permissionGranted
          /\ sensorError' = "Failed to request permission"
  /\ UNCHANGED <<harness, storage, levelOffsets, rawData, tracker, memo,
                 levelCal, audio, capture, captureAt, rest>>

\* useDeviceOrientation.requestAccess, from the "Enable Sensors" button.  The
\* outcome is the answer of DeviceOrientationEvent.requestPermission(), or
\* "noPermissionAPI" where the browser has no such function, or "threw"
requestAccess(outcome) ==
  /\ ~permissionGranted
  /\ IF outcome \in {"granted", "noPermissionAPI"}
     THEN permissionGranted' = TRUE /\ sensorError' = NO_ERROR
     ELSE IF outcome = "denied"
     THEN permissionGranted' = permissionGranted
          /\ sensorError' = "Permission denied for device orientation"
     ELSE permissionGranted' = permissionGranted
          /\ sensorError' = "Failed to request permission"
  /\ UNCHANGED <<harness, storage, levelOffsets, rawData, tracker, memo,
                 levelCal, audio, capture, captureAt, rest>>

\* the deviceorientation listener, registered once permission is granted
handleOrientation(e) ==
  /\ permissionGranted
  /\ rawData' = sample(e)
  /\ UNCHANGED <<harness, storage, levelOffsets, permissionGranted, sensorError,
                 tracker, levelCal, isAudioEnabled, audioContext, now, capture, captureAt, rest>>
  /\ Render
  /\ RunAudioEffect

\* useGeoLocation: the watchPosition success callback
watchPosition(c) ==
  /\ coordinates' = c
  /\ UNCHANGED <<harness, hook, targetPosition, levelCal, isAudioEnabled,
                 audioContext, now, capture, captureAt, rest>>
  /\ Render
  /\ RunAudioEffect

\* fetchTarget, issued on GPS availability and every 60 s: a request resolves
\* with a position (a failed one changes nothing)
fetchTarget(p) ==
  /\ coordinates # NULL
  /\ targetPosition' = p
  /\ UNCHANGED <<harness, hook, coordinates, levelCal, isAudioEnabled,
                 audioContext, now, capture, captureAt, rest>>
  /\ Render
  /\ RunAudioEffect

\* fetchTarget when the request fails: the catch block only logs
fetchTargetFailed ==
  /\ coordinates # NULL
  /\ UNCHANGED vars

\* the audio toggle button: initAudioContext(); setIsAudioEnabled(prev => !prev)
toggleAudio ==
  /\ audioContext' = TRUE
  /\ isAudioEnabled' = ~isAudioEnabled
  /\ UNCHANGED <<harness, hook, tracker, memo, levelCal, now, capture, captureAt, rest>>
  /\ RunAudioEffect

\* the clock advances
Tick ==
  /\ now < T0 + MaxTicks * TickMs
  /\ now' = now + TickMs
  /\ UNCHANGED <<harness, hook, tracker, memo, levelCal, isAudioEnabled,
                 audioContext, lockTone, lastClickTime, feedback, clicked, capture, captureAt, rest>>

\* window.location.reload(): localStorage and the clock survive, every
\* component state and ref starts again
\* every component mounts anew, on what localStorage then holds
MountPage(stored, flag) ==
  /\ levelOffsets' = getLevelOffsets(stored)
  /\ permissionGranted' = FALSE
  /\ sensorError' = NO_ERROR
  /\ rawData' = NULL
  /\ sensorData' = NULL
  /\ coordinates' = NULL
  /\ targetPosition' = NULL
  /\ normalizedSensor' = NULL
  /\ magneticCorrection' = NULL
  /\ correctedSensor' = NULL
  /\ guidance' = NULL
  /\ showLevelCalibration' = FALSE
  /\ calibration' = IDLE
  /\ isAudioEnabled' = TRUE
  /\ audioContext' = FALSE
  /\ lockTone' = FALSE
  /\ lastClickTime' = 0
  /\ feedback' = "off"
  /\ clicked' = FALSE
  /\ isTimerEnabled' = FALSE
  /\ countdown' = NULL
  /\ pendingMeasurement' = NULL
  /\ error' = NO_ERROR
  /\ calibrationProgress' = NULL
  /\ isSubmitting' = FALSE
  /\ snapshot' = NULL
  /\ saveRequest' = NULL
  /\ isVisible' = ~flag
  /\ step' = "intro"
  /\ devTapCount' = 0
  /\ lastTapTime' = 0
  /\ cameraPhase' = "initial"
  /\ mountedRef' = TRUE
  /\ streamRef' = NULL
  /\ cameraStream' = NULL
  /\ cameraError' = NO_ERROR
  /\ pendingGetUserMedia' = 0
  /\ getUserMediaCalls' = 0
  /\ mediaStreams' = <<>>
  /\ captureAt' = IF captureAt = NULL THEN NULL
                  ELSE [captureAt EXCEPT !.reloaded = TRUE]

ReloadPage ==
  /\ UNCHANGED <<harness, storage, now, calibratedFlag>>
  /\ MountPage(storage, calibratedFlag)

\* the user reloads the page
reload == ReloadPage

\* the "Calibrate" button of the header
openLevelCalibration ==
  /\ ~showLevelCalibration
  /\ showLevelCalibration' = TRUE
  /\ UNCHANGED <<harness, hook, tracker, memo, calibration, audio, capture, captureAt, rest>>

\* onClose, from the backdrop or the close button
closeLevelCalibration ==
  /\ showLevelCalibration
  /\ showLevelCalibration' = FALSE
  /\ UNCHANGED <<harness, hook, tracker, memo, calibration, audio, capture, captureAt, rest>>

Captures == IF captureAt = NULL THEN 0 ELSE captureAt.n

\* LevelCalibration.handleCalibrate: the button is rendered while the dialog
\* is open and not showing success, and is disabled without a sample or
\* while calibrating.  The timer it starts keeps the sample of this render.
handleCalibrate ==
  /\ showLevelCalibration
  /\ calibration = IDLE
  /\ sensorData # NULL
  /\ Captures < MaxCaptures
  /\ calibration' = [step |-> "calibrating",
                     beta |-> sensorData.beta, gamma |-> sensorData.gamma]
  /\ UNCHANGED <<harness, hook, tracker, memo, showLevelCalibration, audio,
                 capture, captureAt, rest>>

\* the 500 ms timer of handleCalibrate: saveLevelCalibration(beta, gamma)
calibrationTimer ==
  /\ calibration.step = "calibrating"
  /\ storage' = saveLevelCalibration(calibration.beta, calibration.gamma)
  /\ calibration' = [step |-> "success"]
  /\ captureAt' = [beta  |-> calibration.beta + levelOffsets.offsetBeta,
                   gamma |-> calibration.gamma + levelOffsets.offsetGamma,
                   reloaded |-> FALSE,
                   n |-> Captures + 1]
  /\ UNCHANGED <<harness, levelOffsets, permissionGranted, sensorError, rawData,
                 tracker, memo, showLevelCalibration, audio, capture, rest>>

\* the 1500 ms timer after success: onCalibrated() reloads the page
calibratedTimer ==
  /\ calibration.step = "success"
  /\ ReloadPage

\* the timer toggle button, disabled while a countdown runs
toggleTimer ==
  /\ countdown = NULL
  /\ isTimerEnabled' = ~isTimerEnabled
  /\ UNCHANGED <<harness, hook, tracker, memo, levelCal, audio, countdown,
                 pendingMeasurement, error, captureAt, rest>>

handleMeasure_GatedByThreshold ==
  IF coordinates = NULL \/ correctedSensor = NULL \/ normalizedSensor = NULL
     \/ targetPosition = NULL \/ (guidance # NULL /\ ~guidance.canCapture)
  THEN /\ error' = "GPS, sensors, and target position must be ready before capturing"
       /\ UNCHANGED pendingMeasurement
  ELSE /\ pendingMeasurement' =
            [deviceAzimuth |-> correctedSensor.azimuth,
             deviceAltitude |-> correctedSensor.altitude,
             magneticAzimuth |-> normalizedSensor.azimuth,
             magneticDeclination |-> IF magneticCorrection = NULL THEN 0
                                     ELSE magneticCorrection.declination,
             targetAzimuth |-> targetPosition.azimuth,
             targetAltitude |-> targetPosition.altitude,
             latitude |-> coordinates.latitude,
             longitude |-> coordinates.longitude,
             timestamp |-> now,
             collectionMethod |-> "SHADOW"]
       /\ UNCHANGED error

\* SolarTracker.handleMeasure, on the values of the current render
handleMeasure ==
  IF coordinates = NULL \/ correctedSensor = NULL \/ normalizedSensor = NULL
     \/ targetPosition = NULL
  THEN /\ error' = "GPS, sensors, and target position must be ready before capturing"
       /\ UNCHANGED pendingMeasurement
  ELSE /\ pendingMeasurement' =
            [deviceAzimuth |-> correctedSensor.azimuth,
             deviceAltitude |-> correctedSensor.altitude,
             magneticAzimuth |-> normalizedSensor.azimuth,
             magneticDeclination |-> IF magneticCorrection = NULL THEN 0
                                     ELSE magneticCorrection.declination,
             targetAzimuth |-> targetPosition.azimuth,
             targetAltitude |-> targetPosition.altitude,
             latitude |-> coordinates.latitude,
             longitude |-> coordinates.longitude,
             timestamp |-> now,
             collectionMethod |-> "SHADOW"]
       /\ UNCHANGED error

handleCaptureClick_CancelMeasures ==
  /\ permissionGranted /\ coordinates # NULL /\ correctedSensor # NULL
  /\ pendingMeasurement = NULL
  /\ audioContext' = TRUE
  /\ IF countdown # NULL
     THEN countdown' = NULL /\ handleMeasure
     ELSE IF isTimerEnabled
     THEN countdown' = Num(COUNTDOWN_FROM) /\ UNCHANGED <<pendingMeasurement, error>>
     ELSE handleMeasure /\ UNCHANGED countdown
  /\ UNCHANGED <<harness, hook, tracker, memo, levelCal, isAudioEnabled, lockTone,
                 lastClickTime, feedback, clicked, now, isTimerEnabled, captureAt, rest>>

\* the capture button, enabled when canCapture; the review dialog covers it
\* while a measurement is pending.  initAudioContext() sets a ref: no effect
\* runs because of it.
handleCaptureClick ==
  /\ permissionGranted /\ coordinates # NULL /\ correctedSensor # NULL
  /\ pendingMeasurement = NULL
  /\ audioContext' = TRUE
  /\ IF countdown # NULL
     THEN countdown' = NULL /\ UNCHANGED <<pendingMeasurement, error>>
     ELSE IF isTimerEnabled
     THEN countdown' = Num(COUNTDOWN_FROM) /\ UNCHANGED <<pendingMeasurement, error>>
     ELSE handleMeasure /\ UNCHANGED countdown
  /\ UNCHANGED <<harness, hook, tracker, memo, levelCal, isAudioEnabled, lockTone,
                 lastClickTime, feedback, clicked, now, isTimerEnabled, captureAt, rest>>

\* the 1000 ms timer of the countdown effect; the effect of the render that
\* shows 0 measures and clears the countdown
countdownTimer ==
  /\ countdown # NULL
  /\ IF countdown.num > 1
     THEN countdown' = Num(countdown.num - 1) /\ UNCHANGED <<pendingMeasurement, error>>
     ELSE countdown' = NULL /\ handleMeasure
  /\ UNCHANGED <<harness, hook, tracker, memo, levelCal, audio, isTimerEnabled,
                 captureAt, rest>>

\* the Discard button of the review dialog
handleDiscard ==
  /\ pendingMeasurement # NULL
  /\ pendingMeasurement' = NULL
  /\ UNCHANGED <<harness, hook, tracker, memo, levelCal, audio, isTimerEnabled,
                 countdown, error, captureAt, rest>>

\* the dismiss button of the error banner
dismissError ==
  /\ error # NO_ERROR
  /\ error' = NO_ERROR
  /\ UNCHANGED <<harness, hook, tracker, memo, levelCal, audio, isTimerEnabled,
                 countdown, pendingMeasurement, captureAt, rest>>

\* SolarTracker.getQualityAssessment: thresholds in degrees
EXCELLENT_BELOW == 3
GOOD_BELOW == 10

getQualityAssessment_NaiveAzimuth(pending) ==
  LET deltaAz  == MathAbs(JsSub(pending.targetAzimuth, pending.deviceAzimuth))
      deltaAlt == MathAbs(JsSub(pending.targetAltitude, pending.deviceAltitude))
      maxDelta == MathMax(deltaAz, deltaAlt)
  IN [level |-> IF JsLt(maxDelta, Deg(EXCELLENT_BELOW)) THEN "excellent"
                ELSE IF JsLt(maxDelta, Deg(GOOD_BELOW)) THEN "good"
                ELSE "poor",
      deltaAz |-> deltaAz, deltaAlt |-> deltaAlt]

getQualityAssessment(pending) ==
  LET deltaAz  == MathAbs(getShortestAngle(pending.targetAzimuth, pending.deviceAzimuth))
      deltaAlt == MathAbs(JsSub(pending.targetAltitude, pending.deviceAltitude))
      maxDelta == MathMax(deltaAz, deltaAlt)
  IN [level |-> IF JsLt(maxDelta, Deg(EXCELLENT_BELOW)) THEN "excellent"
                ELSE IF JsLt(maxDelta, Deg(GOOD_BELOW)) THEN "good"
                ELSE "poor",
      deltaAz |-> deltaAz, deltaAlt |-> deltaAlt]

\* Figure-8 energy accumulator (spec.md 4.7; no source for it under src/).
\* Progress is kept in ProgressScale-ths of a point; rates are whole units.
ProgressScale == 1000
PROGRESS_MAX == 100
\* 0.015 on the progress grid
ENERGY_MULTIPLIER == 15

accumulateEnergy_NoCap(progress, a, b, c) ==
  progress + (Abs(a) + Abs(b) + Abs(c)) * ENERGY_MULTIPLIER

\* progress = min(100, progress_prev + (|a|+|b|+|c|) * ENERGY_MULTIPLIER)
accumulateEnergy(progress, a, b, c) ==
  Min2(PROGRESS_MAX * ProgressScale,
       progress + (Abs(a) + Abs(b) + Abs(c)) * ENERGY_MULTIPLIER)

\* rotational rates about one axis
RotationRates == {-400, 0, 700}

\* a calibration session starts: progress is reset to 0
startCalibrationSession ==
  /\ calibrationProgress' = [accumulatedEnergy |-> 0, isComplete |-> FALSE]
  /\ call' = [fn |-> "startSession"]
  /\ UNCHANGED <<ret, hook, tracker, memo, levelCal, audio, capture, captureAt, submit, wizard, taps, camera>>

\* a motion sample arrives during a session
motionSample(a, b, c) ==
  /\ calibrationProgress # NULL
  /\ LET e == accumulateEnergy(calibrationProgress.accumulatedEnergy, a, b, c)
     IN calibrationProgress' =
          [accumulatedEnergy |-> e,
           isComplete |-> e >= PROGRESS_MAX * ProgressScale]
  /\ call' = [fn |-> "motionSample", a |-> a, b |-> b, c |-> c]
  /\ UNCHANGED <<ret, hook, tracker, memo, levelCal, audio, capture, captureAt, submit, wizard, taps, camera>>

\* services/api: errors a rejected call carries.  response is the HTTP status
\* of an AxiosError that has a response.
RateLimitError ==
  [class |-> "RateLimitError", name |-> "RateLimitError",
   message |-> "Too many requests. Please wait a moment.", response |-> NULL]

isAxiosError(e) == e.class = "AxiosError"

\* the catch block of saveMeasurement: what it throws for what api.post threw
saveMeasurementThrows_AnyResponse(e) ==
  IF isAxiosError(e) /\ e.response # NULL THEN RateLimitError ELSE e

saveMeasurementThrows(e) ==
  IF isAxiosError(e) /\ e.response # NULL /\ e.response.num = 429
  THEN RateLimitError
  ELSE e

\* the catch block of handleSubmit: the message for what saveMeasurement threw
submitErrorMessage(err) ==
  IF err.class = "RateLimitError"
  THEN "Please wait a moment before submitting."
  ELSE err.message

\* the Submit button of the review dialog, disabled while submitting:
\* handleSubmit up to its await
handleSubmit ==
  /\ pendingMeasurement # NULL
  /\ ~isSubmitting
  /\ isSubmitting' = TRUE
  /\ error' = NO_ERROR
  /\ saveRequest' =
       [pending |-> pendingMeasurement,
        body |-> [latitude |-> pendingMeasurement.latitude,
                  longitude |-> pendingMeasurement.longitude,
                  device_azimuth |-> pendingMeasurement.deviceAzimuth,
                  device_altitude |-> pendingMeasurement.deviceAltitude,
                  magnetic_azimuth |-> pendingMeasurement.magneticAzimuth,
                  magnetic_declination |-> pendingMeasurement.magneticDeclination,
                  collection_method |-> pendingMeasurement.collectionMethod]]
  /\ UNCHANGED <<harness, hook, tracker, memo, levelCal, audio, isTimerEnabled,
                 countdown, pendingMeasurement, captureAt, figure8, snapshot, wizard, taps, camera>>

\* the awaited call returns response.data: the rest of the try block, then
\* the finally block.  pendingMeasurement in the snapshot is the closure's.
saveResolved(result) ==
  /\ saveRequest # NULL
  /\ snapshot' =
       [sensor |-> [azimuth |-> saveRequest.pending.deviceAzimuth,
                    altitude |-> saveRequest.pending.deviceAltitude],
        nasa |-> [azimuth |-> result.nasa_azimuth, altitude |-> result.nasa_altitude],
        delta |-> [azimuth |-> result.delta_azimuth,
                   altitude |-> result.delta_altitude],
        timestamp |-> result.created_at]
  /\ pendingMeasurement' = NULL
  /\ isSubmitting' = FALSE
  /\ saveRequest' = NULL
  /\ call' = [fn |-> "saveMeasurement", resolved |-> result, rejected |-> NULL,
              thrown |-> NULL]
  /\ UNCHANGED <<ret, hook, tracker, memo, levelCal, audio, isTimerEnabled,
                 countdown, error, captureAt, figure8, wizard, taps, camera>>

\* api.post rejects with e: the catch block of saveMeasurement, the catch
\* block of handleSubmit, then the finally block
saveRejected_ClearsPending(e) ==
  /\ saveRequest # NULL
  /\ error' = submitErrorMessage(saveMeasurementThrows(e))
  /\ isSubmitting' = FALSE
  /\ saveRequest' = NULL
  /\ pendingMeasurement' = NULL
  /\ call' = [fn |-> "saveMeasurement", resolved |-> NULL, rejected |-> e,
              thrown |-> saveMeasurementThrows(e)]
  /\ UNCHANGED <<ret, hook, tracker, memo, levelCal, audio, isTimerEnabled,
                 countdown, captureAt, figure8, snapshot, wizard, taps, camera>>

saveRejected(e) ==
  /\ saveRequest # NULL
  /\ error' = submitErrorMessage(saveMeasurementThrows(e))
  /\ isSubmitting' = FALSE
  /\ saveRequest' = NULL
  /\ call' = [fn |-> "saveMeasurement", resolved |-> NULL, rejected |-> e,
              thrown |-> saveMeasurementThrows(e)]
  /\ UNCHANGED <<ret, hook, tracker, memo, levelCal, audio, isTimerEnabled,
                 countdown, pendingMeasurement, captureAt, figure8, snapshot, wizard, taps, camera>>

\* the Discard button of the review dialog, disabled while submitting
discardButton ==
  /\ ~isSubmitting
  /\ handleDiscard

\* a click on the backdrop of the review dialog
backdropClick == handleDiscard

\* CalibrationWizard: the "Start Calibration" button of the intro step
handleStartCalibration ==
  /\ isVisible
  /\ step = "intro"
  /\ step' = "calibrating"
  /\ UNCHANGED <<harness, hook, tracker, memo, levelCal, audio, capture, captureAt,
                 figure8, submit, calibratedFlag, isVisible, taps, camera>>

\* the CALIBRATION_DURATION_MS timer of the effect, set while calibrating
calibrationDurationTimer ==
  /\ step = "calibrating"
  /\ step' = "done"
  /\ UNCHANGED <<harness, hook, tracker, memo, levelCal, audio, capture, captureAt,
                 figure8, submit, calibratedFlag, isVisible, taps, camera>>

handleComplete_NoFlag ==
  /\ isVisible
  /\ step = "done"
  /\ isVisible' = FALSE
  /\ UNCHANGED <<harness, hook, tracker, memo, levelCal, audio, capture, captureAt,
                 figure8, submit, calibratedFlag, step, taps, camera>>

\* the button of the done step
handleComplete ==
  /\ isVisible
  /\ step = "done"
  /\ calibratedFlag' = TRUE
  /\ isVisible' = FALSE
  /\ UNCHANGED <<harness, hook, tracker, memo, levelCal, audio, capture, captureAt,
                 figure8, submit, step, taps, camera>>

\* the window within which header taps count, and the taps needed
TAP_WINDOW_MS == 2000
DEV_TAPS == 4

\* SolarTracker.handleHeaderTap.  lastTapTime starts at 0 and Date.now() is
\* far past it, so the first tap of a page always restarts the count.  The
\* test of devTapCount reads the value of the render the tap was made in; when
\* it passes, both items are removed and the page reloads.
handleHeaderTap ==
  IF devTapCount >= DEV_TAPS
  THEN /\ storage' = ABSENT
       /\ calibratedFlag' = FALSE
       /\ UNCHANGED <<harness, now>>
       /\ MountPage(ABSENT, FALSE)
  ELSE /\ devTapCount' = IF lastTapTime = 0 \/ now - lastTapTime > TAP_WINDOW_MS
                         THEN 1 ELSE devTapCount + 1
       /\ lastTapTime' = now
       /\ UNCHANGED <<harness, hook, tracker, memo, levelCal, audio, capture,
                      captureAt, figure8, submit, wizard, camera>>

\* useCameraStream.  A stream is the index of its entry in mediaStreams;
\* an entry is "live" until its tracks are stopped ("stopped") or end by
\* themselves ("ended").
MaxCameraCalls == 3

notCamera == <<harness, hook, tracker, memo, levelCal, audio, capture, captureAt,
               figure8, submit, wizard, taps>>

\* stopStream(): the streams after it, the ref and the state
stoppedStreams(ref, streams) ==
  IF ref = NULL THEN streams
  ELSE [streams EXCEPT ![ref.num] = IF @ = "live" THEN "stopped" ELSE @]

\* the mount effect: mountedRef.current = true; initCamera() up to its await
mountCamera ==
  /\ cameraPhase = "initial"
  /\ cameraPhase' = "mounted"
  /\ mountedRef' = TRUE
  /\ mediaStreams' = stoppedStreams(streamRef, mediaStreams)
  /\ streamRef' = NULL
  /\ cameraStream' = IF streamRef = NULL THEN cameraStream ELSE NULL
  /\ pendingGetUserMedia' = pendingGetUserMedia + 1
  /\ getUserMediaCalls' = getUserMediaCalls + 1
  /\ UNCHANGED <<cameraError, notCamera>>

\* handleVisibilityChange with visibilityState 'visible': initCamera() up to
\* its await when there is no stream or no live track
handleVisibilityChange ==
  /\ cameraPhase = "mounted"
  /\ getUserMediaCalls < MaxCameraCalls
  /\ IF streamRef = NULL \/ mediaStreams[streamRef.num] # "live"
     THEN /\ mediaStreams' = stoppedStreams(streamRef, mediaStreams)
          /\ streamRef' = NULL
          /\ cameraStream' = IF streamRef = NULL THEN cameraStream ELSE NULL
          /\ pendingGetUserMedia' = pendingGetUserMedia + 1
          /\ getUserMediaCalls' = getUserMediaCalls + 1
     ELSE UNCHANGED <<mediaStreams, streamRef, cameraStream, pendingGetUserMedia,
                      getUserMediaCalls>>
  /\ UNCHANGED <<cameraPhase, mountedRef, cameraError, notCamera>>

\* getUserMedia resolves with a new stream: the rest of initCamera's try block
getUserMediaResolved ==
  /\ pendingGetUserMedia > 0
  /\ pendingGetUserMedia' = pendingGetUserMedia - 1
  /\ IF mountedRef
     THEN /\ mediaStreams' = Append(mediaStreams, "live")
          /\ streamRef' = Num(Len(mediaStreams) + 1)
          /\ cameraStream' = Num(Len(mediaStreams) + 1)
          /\ cameraError' = NO_ERROR
     ELSE /\ mediaStreams' = Append(mediaStreams, "stopped")
          /\ UNCHANGED <<streamRef, cameraStream, cameraError>>
  /\ UNCHANGED <<cameraPhase, mountedRef, getUserMediaCalls, notCamera>>

\* getUserMedia rejects: initCamera's catch block
getUserMediaRejected(e) ==
  /\ pendingGetUserMedia > 0
  /\ pendingGetUserMedia' = pendingGetUserMedia - 1
  /\ cameraError' = IF ~mountedRef THEN cameraError
                    ELSE IF e.name = "NotAllowedError" THEN "Camera permission denied"
                    ELSE IF e.name = "NotFoundError" THEN "No camera found"
                    ELSE e.message
  /\ UNCHANGED <<cameraPhase, mountedRef, streamRef, cameraStream, getUserMediaCalls,
                 mediaStreams, notCamera>>

\* the browser ends the tracks of the stream in use (camera taken away while
\* the tab is hidden)
tracksEnded ==
  /\ streamRef # NULL
  /\ mediaStreams[streamRef.num] = "live"
  /\ mediaStreams' = [mediaStreams EXCEPT ![streamRef.num] = "ended"]
  /\ UNCHANGED <<cameraPhase, mountedRef, streamRef, cameraStream, cameraError,
                 pendingGetUserMedia, getUserMediaCalls, notCamera>>

\* the cleanup of the mount effect: mountedRef.current = false; stopStream()
unmountCamera ==
  /\ cameraPhase = "mounted"
  /\ cameraPhase' = "unmounted"
  /\ mountedRef' = FALSE
  /\ mediaStreams' = stoppedStreams(streamRef, mediaStreams)
  /\ streamRef' = NULL
  /\ cameraStream' = IF streamRef = NULL THEN cameraStream ELSE NULL
  /\ UNCHANGED <<cameraError, pendingGetUserMedia, getUserMediaCalls, notCamera>>

-----------------------------------------------------------------------------
(* Specifications *)

Outcomes == {"granted", "noPermissionAPI", "denied", "threw"}

\* the tracker: sensors, location, target, guidance and audio feedback
Next ==
  \/ \E o \in Outcomes : requestAccess(o)
  \/ \E e \in TrackerEvents : handleOrientation(e)
  \/ \E c \in Locations : watchPosition(c)
  \/ \E p \in Targets : fetchTarget(p)
  \/ fetchTargetFailed
  \/ toggleAudio
  \/ toggleTimer
  \/ handleCaptureClick
  \/ countdownTimer
  \/ handleDiscard
  \/ dismissError
  \/ Tick
  \/ reload

InitTracker == Init /\ storage = ABSENT

Spec == InitTracker /\ [][Next]_vars

\* the sensor hook and the level-calibration dialog
NextCalibration ==
  \/ \E o \in Outcomes : requestAccess(o)
  \/ \E e \in Events : handleOrientation(e)
  \/ reload
  \/ openLevelCalibration
  \/ closeLevelCalibration
  \/ handleCalibrate
  \/ calibrationTimer
  \/ calibratedTimer

SpecCalibration == Init /\ [][NextCalibration]_vars

\* the pipeline from event to guidance, with a wider range of events: a
\* heading past south, and events whose heading or tilt is NaN
PipelineHeadings ==
  Headings \cup {[webkitCompassHeading |-> NULL, alpha |-> Num(Deg(195))],
                 [webkitCompassHeading |-> Num(NaN), alpha |-> Num(Deg(10))],
                 [webkitCompassHeading |-> NULL, alpha |-> Num(NaN)]}
PipelineBetas == Betas \cup {Num(NaN)}
PipelineEvents ==
  {[webkitCompassHeading |-> h.webkitCompassHeading, alpha |-> h.alpha,
    beta |-> b, gamma |-> NULL] : h \in PipelineHeadings, b \in PipelineBetas}
PipelineTargets == Targets \cup {[azimuth |-> Deg(10), altitude |-> Deg(5)]}

NextPipeline ==
  \/ \E o \in Outcomes : requestAccess(o)
  \/ \E e \in PipelineEvents : handleOrientation(e)
  \/ \E c \in Locations : watchPosition(c)
  \/ \E p \in PipelineTargets : fetchTarget(p)
  \/ fetchTargetFailed
  \/ reload

SpecPipeline == Init /\ [][NextPipeline]_vars

-----------------------------------------------------------------------------
(* The pure functions, applied to inputs drawn from bounded sets.  The page
   stays as it was when it loaded with nothing stored. *)

Quiescent ==
  /\ storage = ABSENT
  /\ calibratedFlag = TRUE
  /\ Mounted
  /\ now = T0
  /\ captureAt = NULL

page == <<hook, tracker, memo, levelCal, audio, capture, captureAt, rest>>

\* whole turns a heading may be off by
MaxTurns == 2
\* the geomagnetic model's declinations lie within +-MaxDeclination degrees
MaxDeclination == 180
\* a heading many turns away
FarTurns == 1000

\* grid points on, just above and just below a multiple of period
Near(x, period) == x % period \in {0, 1, period - 1}

AngleTargets ==
  {t \in 0..(Full - 1) :
     Near(t, Deg(30)) \/ t \in {Deg(1), Deg(10), Deg(45), Deg(350), Deg(359)}}
AngleCurrents == 0..(Full - 1)

InitAngle ==
  /\ call \in {[fn |-> "getShortestAngle", target |-> t, current |-> c] :
                 t \in AngleTargets, c \in AngleCurrents}
  /\ ret = NULL
  /\ Quiescent

applyShortestAngle ==
  /\ call # NULL
  /\ call.fn = "getShortestAngle"
  /\ ret = NULL
  /\ ret' = [value |-> getShortestAngle(call.target, call.current)]
  /\ UNCHANGED <<call, page>>

SpecAngle == InitAngle /\ [][applyShortestAngle]_vars

NormAlphas ==
  {a \in (-(MaxTurns * Full) - 1)..(MaxTurns * Full + 1) : Near(a, Scale)}
    \cup {FarTurns * Full, FarTurns * Full + Deg(90),
          -(FarTurns * Full), -(FarTurns * Full) - Deg(10)}
NormBetas ==
  {Deg(-50), -1, 0, Deg(60), Deg(90), Deg(135), Deg(180), Deg(180) + 1, Deg(200)}
NormGammas == {Deg(-90), 0, Deg(45)}

InitNormalize ==
  /\ call \in {[fn |-> "normalizeOrientation", alpha |-> a, beta |-> b, gamma |-> g] :
                 a \in NormAlphas, b \in NormBetas, g \in NormGammas}
  /\ ret = NULL
  /\ Quiescent

applyNormalizeOrientation ==
  /\ call # NULL
  /\ call.fn = "normalizeOrientation"
  /\ ret = NULL
  /\ ret' = [value |-> normalizeOrientation(call.alpha, call.beta, call.gamma)]
  /\ UNCHANGED <<call, page>>

SpecNormalize == InitNormalize /\ [][applyNormalizeOrientation]_vars

MagneticAzimuths == {m \in 0..(Full - 1) : Near(m, Deg(5))}
Declinations ==
  {d \in (-Deg(MaxDeclination))..Deg(MaxDeclination) : d % Scale \in {0, 1}}

InitTrueNorth ==
  /\ call \in {[fn |-> "getTrueNorth", magneticAzimuth |-> m, declination |-> d] :
                 m \in MagneticAzimuths, d \in Declinations}
  /\ ret = NULL
  /\ Quiescent

applyTrueNorth ==
  /\ call # NULL
  /\ call.fn = "getTrueNorth"
  /\ ret = NULL
  /\ ret' = [value |-> getTrueNorth(call.magneticAzimuth, call.declination)]
  /\ UNCHANGED <<call, page>>

SpecTrueNorth == InitTrueNorth /\ [][applyTrueNorth]_vars

\* the guidance memo, recomputed for one sample after another
Offsets ==
  {0, Deg(LOCK_THRESHOLD) - 1, Deg(LOCK_THRESHOLD), Deg(LOCK_THRESHOLD) + 1,
   Deg(FINE_THRESHOLD) - 1, Deg(FINE_THRESHOLD), Deg(FINE_THRESHOLD) + 1,
   Deg(CAPTURE_THRESHOLD), Deg(90)}
SignedOffsets == Offsets \cup {-d : d \in Offsets}

GuidanceCurrents == {[azimuth |-> a, altitude |-> 0] : a \in {0, Deg(350)}}
GuidanceTargets ==
  {[azimuth |-> a, altitude |-> h] :
     a \in {d % Full : d \in SignedOffsets} \cup {Deg(180)}, h \in SignedOffsets}

InitGuidance ==
  /\ call = NULL
  /\ ret = NULL
  /\ Quiescent

recomputeGuidance(cs, tp) ==
  /\ call' = [fn |-> "guidance", correctedSensor |-> cs, targetPosition |-> tp]
  /\ ret' = [value |-> guidanceOf(cs, tp)]
  /\ UNCHANGED page

NextGuidance ==
  \E cs \in GuidanceCurrents : \E tp \in GuidanceTargets : recomputeGuidance(cs, tp)

SpecGuidance == InitGuidance /\ [][NextGuidance]_vars

-----------------------------------------------------------------------------
(* Properties of getShortestAngle, under SpecAngle *)

\* the mathematical (floored) residue of x modulo a full turn
Residue(x) == x % Full

\* C1, as stated: for target and current in [0,360) the result lies in
\* (-180, 180], so -180 is never returned.
C1_ResultAboveMinus180 ==
  ret # NULL => ret.value > -Deg(180) /\ ret.value <= Deg(180)

\* C1, as the code has it: for target and current in [0,360) the result lies
\* in [-180, 180): +180 is never returned, and -180 is returned exactly when
\* the two azimuths are 180 degrees apart.
C1_ResultInClosedOpenRange ==
  ret # NULL =>
    /\ ret.value >= -Deg(180)
    /\ ret.value < Deg(180)
    /\ (ret.value = -Deg(180)) <=> (Abs(call.target - call.current) = Deg(180))

C1_HalfTurnGivesMinus180 ==
  /\ ret # NULL
  /\ call.target = Deg(180) /\ call.current = 0
  /\ ret.value = -Deg(180)

\* C2: the result is the shortest signed rotation from current to target:
\* current + result is the target modulo 360, |result| <= 180 and equal to the
\* smaller of the two arcs, and when the azimuths are less than 180 apart the
\* result is positive exactly when the target is clockwise of current and
\* negative when it is counter-clockwise, also across 0/360.
C2_ShortestSignedRotation ==
  ret # NULL =>
    LET t == call.target
        c == call.current
        r == ret.value
        clockwiseArc == Residue(t - c)
        counterArc   == Residue(c - t)
    IN /\ Residue(c + r) = t
       /\ Abs(r) <= Deg(180)
       /\ Abs(r) = Min2(clockwiseArc, counterArc)
       /\ (clockwiseArc # Deg(180)) =>
            /\ (r > 0) <=> (clockwiseArc > 0 /\ clockwiseArc < Deg(180))
            /\ (r < 0) <=> (counterArc > 0 /\ counterArc < Deg(180))
       /\ (t = c) => r = 0
       /\ (t = Deg(90) /\ c = 0) => r = Deg(90)
       /\ (t = 0 /\ c = Deg(90)) => r = -Deg(90)
       /\ (t = Deg(10) /\ c = Deg(350)) => r = Deg(20)
       /\ (t = Deg(350) /\ c = Deg(10)) => r = -Deg(20)

C2_AcrossNorthClockwise ==
  /\ ret # NULL
  /\ call.target = Deg(10) /\ call.current = Deg(350)
  /\ ret.value = Deg(20)

-----------------------------------------------------------------------------
(* Properties of normalizeOrientation, under SpecNormalize *)

C6_AltitudeClampedGammaIgnored ==
  ret # NULL =>
    /\ ret.value.altitude = Max2(-Deg(90), Min2(Deg(90), call.beta - Deg(90)))
    /\ (call.beta = Deg(90)) => ret.value.altitude = 0
    /\ (call.beta = Deg(180)) => ret.value.altitude = Deg(90)
    /\ (call.beta = 0) => ret.value.altitude = -Deg(90)
    /\ (call.beta = Deg(200)) => ret.value.altitude = Deg(90)
    /\ (call.beta = Deg(-50)) => ret.value.altitude = -Deg(90)
    /\ \A g \in NormGammas :
         normalizeOrientation(call.alpha, call.beta, g) = ret.value

C6_TiltPastVerticalSaturates ==
  /\ ret # NULL
  /\ call.beta = Deg(200)
  /\ call.gamma = Deg(45)
  /\ ret.value.altitude = Deg(90)

-----------------------------------------------------------------------------
(* Properties of getTrueNorth, under SpecTrueNorth *)

-----------------------------------------------------------------------------
(* Properties of the guidance memo, under SpecGuidance *)

\* C3: every sample is in exactly one band: Locked iff both |deltas| <= 5,
\* Fine iff not Locked and the larger |delta| <= 15, Coarse iff the larger
\* |delta| > 15; the deltas and the band are those of the current sample,
\* whatever sample came before.
C3_ExactlyOneBand ==
  ret # NULL =>
    LET g == ret.value
        absAzimuth  == Abs(g.azimuthDelta)
        absAltitude == Abs(g.altitudeDelta)
        maxDelta == Max2(absAzimuth, absAltitude)
        bands == <<g.fullyLocked, g.isFine, g.isCoarse>>
    IN /\ g.altitudeDelta = call.targetPosition.altitude - call.correctedSensor.altitude
       /\ Residue(call.correctedSensor.azimuth + g.azimuthDelta)
            = call.targetPosition.azimuth
       /\ g.fullyLocked <=>
            (absAzimuth <= Deg(LOCK_THRESHOLD) /\ absAltitude <= Deg(LOCK_THRESHOLD))
       /\ g.isFine <=> (~g.fullyLocked /\ maxDelta <= Deg(FINE_THRESHOLD))
       /\ g.isCoarse <=> (maxDelta > Deg(FINE_THRESHOLD))
       /\ Cardinality({i \in 1..3 : bands[i]}) = 1

C3_FineAtFineThreshold ==
  /\ ret # NULL
  /\ ret.value.isFine
  /\ ret.value.azimuthDelta = -Deg(LOCK_THRESHOLD)
  /\ ret.value.altitudeDelta = Deg(FINE_THRESHOLD)

\* C4: the direction flags compare against the fine threshold: needsRight iff
\* azimuthDelta > 15, needsLeft iff azimuthDelta < -15, needsUp iff
\* altitudeDelta > 15, needsDown iff altitudeDelta < -15; so a flag is set
\* only in the Coarse band, some flag is set in the Coarse band, and opposite
\* flags are never set together.
C4_FlagsUseFineThreshold ==
  ret # NULL =>
    LET g == ret.value
        anyFlag == g.needsRight \/ g.needsLeft \/ g.needsUp \/ g.needsDown
    IN /\ g.needsRight <=> (g.azimuthDelta > Deg(FINE_THRESHOLD))
       /\ g.needsLeft  <=> (g.azimuthDelta < -Deg(FINE_THRESHOLD))
       /\ g.needsUp    <=> (g.altitudeDelta > Deg(FINE_THRESHOLD))
       /\ g.needsDown  <=> (g.altitudeDelta < -Deg(FINE_THRESHOLD))
       /\ anyFlag => g.isCoarse
       /\ g.isCoarse => anyFlag
       /\ ~(g.needsLeft /\ g.needsRight)
       /\ ~(g.needsUp /\ g.needsDown)

C4_LeftAndUpJustPastFine ==
  /\ ret # NULL
  /\ ret.value.isCoarse
  /\ ret.value.azimuthDelta = -Deg(FINE_THRESHOLD) - 1
  /\ ret.value.altitudeDelta = Deg(FINE_THRESHOLD) + 1
  /\ ret.value.needsLeft /\ ret.value.needsUp
  /\ ~ret.value.needsRight /\ ~ret.value.needsDown

-----------------------------------------------------------------------------
(* Properties of the level calibration, under SpecCalibration *)

ZeroOffsets == [offsetBeta |-> 0, offsetGamma |-> 0]

\* the stored item is the one the hook read when it mounted: only the timer of
\* a capture writes it, and the page reloads after that
StorageAsMounted == calibration.step # "success"

\* C8: the corrected sample is the raw sample with the offsets subtracted from
\* the two tilts, not wrapped or clamped, and the heading as it was; the -90
\* conversion and the clamp act on that difference; with nothing stored, or
\* with an unreadable item, the offsets are zero and the corrected sample is
\* the raw one.
C8_OffsetsSubtractedBeforeClamp ==
  /\ rawData # NULL =>
       /\ sensorData.alpha = rawData.alpha
       /\ sensorData.beta = rawData.beta - levelOffsets.offsetBeta
       /\ sensorData.gamma = rawData.gamma - levelOffsets.offsetGamma
       /\ normalizedSensor.altitude =
            Max2(-Deg(90),
                 Min2(Deg(90), rawData.beta - levelOffsets.offsetBeta - Deg(90)))
       /\ normalizedSensor.azimuth = Residue(rawData.alpha)
  /\ (StorageAsMounted /\ storage \in {ABSENT, CORRUPT}) =>
       /\ levelOffsets = ZeroOffsets
       /\ rawData # NULL => sensorData = rawData
  /\ (StorageAsMounted /\ storage \notin {ABSENT, CORRUPT}) =>
       /\ levelOffsets.offsetBeta = storage.offsetBeta
       /\ levelOffsets.offsetGamma = storage.offsetGamma

C8_CorrectedTiltBelowZero ==
  /\ rawData # NULL
  /\ levelOffsets.offsetBeta = Deg(2)
  /\ rawData.beta = 0
  /\ sensorData.beta = -Deg(2)
  /\ normalizedSensor.altitude = -Deg(90)

-----------------------------------------------------------------------------
(* Properties of the audio feedback, under Spec *)

totalDeltaOf(g) == Abs(g.azimuthDelta) + Abs(g.altitudeDelta)

\* the mode the thresholds assign to a total delta
ModeFor(totalDelta) ==
  IF totalDelta < Deg(TONE_BELOW) THEN "tone"
  ELSE IF totalDelta <= Deg(CLICK_UPTO) THEN "clicking"
  ELSE "silence"

\* C10, as stated: with audio enabled and guidance present the mode is the one
\* of totalDelta: tone iff < 3, clicking iff in [3, 20], silence iff > 20; the
\* tone and a click never sound for the same sample.
C10_ModeFromTotalDeltaAlone ==
  /\ (isAudioEnabled /\ guidance # NULL) =>
       /\ (feedback = "tone") <=> (totalDeltaOf(guidance) < Deg(TONE_BELOW))
       /\ (feedback = "clicking") <=>
            (totalDeltaOf(guidance) >= Deg(TONE_BELOW)
             /\ totalDeltaOf(guidance) <= Deg(CLICK_UPTO))
       /\ (feedback = "silence") <=> (totalDeltaOf(guidance) > Deg(CLICK_UPTO))
  /\ ~(lockTone /\ clicked)

\* a step that renders and runs the audio effect
AudioEffectStep ==
  \/ \E e \in TrackerEvents : handleOrientation(e)
  \/ \E c \in Locations : watchPosition(c)
  \/ \E p \in Targets : fetchTarget(p)
  \/ toggleAudio

\* C10, as the code has it: whenever the audio effect runs with audio enabled,
\* guidance present and the audio context already created (by the audio toggle
\* or the capture button), the mode is the one of totalDelta: tone iff < 3,
\* clicking iff in [3, 20], silence iff > 20 (2.9 -> tone, 3.0 and 20.0 ->
\* clicking, 20.1 -> silence); when it runs without an audio context nothing
\* sounds; the tone and a click never sound for the same sample.
C10_ModeFromTotalDeltaOnceAudioReady ==
  [][AudioEffectStep =>
       /\ (isAudioEnabled' /\ guidance' # NULL /\ audioContext') =>
            /\ feedback' = ModeFor(totalDeltaOf(guidance'))
            /\ lockTone' <=> (totalDeltaOf(guidance') < Deg(TONE_BELOW))
            /\ clicked' => (totalDeltaOf(guidance') >= Deg(TONE_BELOW)
                            /\ totalDeltaOf(guidance') <= Deg(CLICK_UPTO))
            /\ (totalDeltaOf(guidance') = Deg(TONE_BELOW) - 1) => feedback' = "tone"
            /\ (totalDeltaOf(guidance') = Deg(TONE_BELOW)) => feedback' = "clicking"
            /\ (totalDeltaOf(guidance') = Deg(CLICK_UPTO)) => feedback' = "clicking"
            /\ (totalDeltaOf(guidance') = Deg(CLICK_UPTO) + 1) => feedback' = "silence"
       /\ ~audioContext' => (feedback' = "off" /\ ~lockTone' /\ ~clicked')
       /\ ~(lockTone' /\ clicked')]_vars

C10_ToneJustBelowThreshold ==
  /\ isAudioEnabled /\ audioContext /\ guidance # NULL
  /\ totalDeltaOf(guidance) = Deg(TONE_BELOW) - 1
  /\ feedback = "tone" /\ lockTone /\ ~clicked

-----------------------------------------------------------------------------
(* The click interval, computed for every total delta of the clicking band *)

ClickingDeltas == Deg(TONE_BELOW)..Deg(CLICK_UPTO)

InitInterval ==
  /\ call \in {[fn |-> "interval", totalDelta |-> d] : d \in ClickingDeltas}
  /\ ret = NULL
  /\ Quiescent

applyClickInterval ==
  /\ call # NULL
  /\ call.fn = "interval"
  /\ ret = NULL
  /\ ret' = [value |-> clickIntervalScaled(call.totalDelta)]
  /\ UNCHANGED <<call, page>>

SpecInterval == InitInterval /\ [][applyClickInterval]_vars

\* ret.value is Scale times the interval in milliseconds
Ms(n) == n * Scale

\* C11, as stated: the interval is about 100 ms at totalDelta 20.0 and within
\* 5 ms of 550 ms at totalDelta 11.5.
C11_PinnedIntervals ==
  ret # NULL =>
    /\ (call.totalDelta = Deg(20)) => Abs(ret.value - Ms(100)) <= Ms(5)
    /\ (2 * call.totalDelta = Deg(23)) => Abs(ret.value - Ms(550)) <= Ms(5)

\* C11, as the code has it: the interval is 1000 ms at totalDelta 20.0 (the
\* slowest cadence) and 617.5 ms at totalDelta 11.5.
C11_IntervalsOfTheFormula ==
  ret # NULL =>
    /\ (call.totalDelta = Deg(20)) => ret.value = Ms(1000)
    /\ (2 * call.totalDelta = Deg(23)) => 2 * ret.value = Ms(1235)

C11_IntervalAtElevenAndAHalf ==
  /\ ret # NULL
  /\ 2 * call.totalDelta = Deg(23)
  /\ 2 * ret.value = Ms(1235)

\* C12: for every totalDelta in [3, 20] the interval is
\* clamp((totalDelta/20)*900 + 100, 100, 1000), lies in [100, 1000] ms, and a
\* smaller totalDelta never has a longer interval.
C12_IntervalFormulaRangeMonotone ==
  ret # NULL =>
    LET linear20 == call.totalDelta * CLICK_SPAN_MS + CLICK_UPTO * Ms(CLICK_MIN_MS)
        clamped20 == Max2(CLICK_UPTO * Ms(CLICK_MIN_MS),
                          Min2(CLICK_UPTO * Ms(CLICK_MAX_MS), linear20))
    IN /\ CLICK_UPTO * ret.value = clamped20
       /\ ret.value >= Ms(CLICK_MIN_MS)
       /\ ret.value <= Ms(CLICK_MAX_MS)
       /\ \A d \in ClickingDeltas :
            (d <= call.totalDelta) => clickIntervalScaled(d) <= ret.value
       /\ \A d \in ClickingDeltas :
            (d < call.totalDelta) => clickIntervalScaled(d) < ret.value

C12_FastestClickAtThree ==
  /\ ret # NULL
  /\ call.totalDelta = Deg(TONE_BELOW)
  /\ ret.value = Ms(235)

-----------------------------------------------------------------------------
(* Click throttling, under Spec *)

\* C13: within one page load, a run of the audio effect emits a click only in
\* the clicking band and only when the interval computed in that run has
\* elapsed since the last emitted click, and it then records the time of the
\* click; a run that emits no click leaves the last-click time alone; a step
\* that does not run the effect neither clicks nor changes the last-click
\* time.
C13_ClicksSelfThrottle ==
  [][IF AudioEffectStep
     THEN IF clicked'
          THEN /\ feedback' = "clicking"
               /\ (now - lastClickTime) * Scale
                    >= clickIntervalScaled(totalDeltaOf(guidance'))
               /\ lastClickTime' = now
          ELSE lastClickTime' = lastClickTime
     ELSE \/ (lastClickTime' = lastClickTime /\ clicked' = clicked)
          \/ ReloadPage]_vars

C13_SecondClickAfterFullInterval ==
  /\ clicked
  /\ feedback = "clicking"
  /\ guidance # NULL
  /\ totalDeltaOf(guidance) = Deg(CLICK_UPTO)
  /\ now = T0 + 2 * TickMs
  /\ lastClickTime = now

-----------------------------------------------------------------------------
(* Properties of the pipeline from event to guidance, under SpecPipeline *)

\* the current sample has a NaN heading or a NaN front-back tilt
NaNSample == rawData # NULL /\ (rawData.alpha = NaN \/ rawData.beta = NaN)

\* C14, as stated: a sample whose heading or tilt is NaN counts as no valid
\* sample, so no guidance state is produced from it.
C14_NaNSampleGivesNoGuidance ==
  NaNSample => (normalizedSensor = NULL /\ correctedSensor = NULL /\ guidance = NULL)

C16_CorrectionSkippedWithoutLocation ==
  normalizedSensor # NULL =>
    IF coordinates = NULL
    THEN /\ magneticCorrection = NULL
         /\ correctedSensor = normalizedSensor
         /\ error = NO_ERROR
    ELSE /\ magneticCorrection # NULL
         /\ magneticCorrection.declination = coordinates.decl
         /\ correctedSensor.altitude = normalizedSensor.altitude
         /\ correctedSensor.azimuth =
              IF normalizedSensor.azimuth = NaN THEN NaN
              ELSE Residue(normalizedSensor.azimuth + coordinates.decl)

C16_MagneticHeadingUsedAsIs ==
  /\ coordinates = NULL
  /\ normalizedSensor # NULL
  /\ normalizedSensor.azimuth = Deg(350)
  /\ correctedSensor = normalizedSensor

\* the delta a reordered pipeline would give: shortest angle to the magnetic
\* azimuth first, declination taken off afterwards
ReorderedAzimuthDelta ==
  getShortestAngle(targetPosition.azimuth, normalizedSensor.azimuth)
    - coordinates.decl

\* C17: with a location, azimuthDelta is the shortest angle from the true
\* azimuth, (normalized azimuth + declination) modulo 360, to the target
\* azimuth, and the azimuth flags, the locks and the band are those of that
\* delta.
C17_DeclinationBeforeDelta ==
  (guidance # NULL /\ coordinates # NULL /\ ~NaNSample) =>
    LET trueAzimuth == Residue(normalizedSensor.azimuth + coordinates.decl)
        d == guidance.azimuthDelta
        maxDelta == Max2(Abs(d), Abs(guidance.altitudeDelta))
    IN /\ Residue(trueAzimuth + d) = targetPosition.azimuth
       /\ d >= -Deg(180) /\ d < Deg(180)
       /\ guidance.needsRight <=> (d > Deg(FINE_THRESHOLD))
       /\ guidance.needsLeft <=> (d < -Deg(FINE_THRESHOLD))
       /\ guidance.azimuthLocked <=> (Abs(d) <= Deg(LOCK_THRESHOLD))
       /\ guidance.isCoarse <=> (maxDelta > Deg(FINE_THRESHOLD))
       /\ guidance.isFine <=>
            (maxDelta <= Deg(FINE_THRESHOLD) /\ maxDelta > Deg(LOCK_THRESHOLD))
       /\ guidance.fullyLocked <=> (maxDelta <= Deg(LOCK_THRESHOLD))

C17_ReorderingWouldDiffer ==
  /\ guidance # NULL /\ coordinates # NULL /\ ~NaNSample
  /\ normalizedSensor.azimuth = Deg(195)
  /\ coordinates.decl = -Deg(10)
  /\ guidance.azimuthDelta = -Deg(175)
  /\ ReorderedAzimuthDelta = Deg(185)

\* heading 350, tilt 90, nothing stored, declination 0, target (10, 5)
EndToEndInput ==
  /\ rawData # NULL
  /\ rawData.alpha = Deg(350) /\ rawData.beta = Deg(90)
  /\ levelOffsets = ZeroOffsets
  /\ coordinates # NULL /\ coordinates.decl = 0
  /\ targetPosition = [azimuth |-> Deg(10), altitude |-> Deg(5)]

\* C20: for that input azimuthDelta is +20 and altitudeDelta +5, the band is
\* Coarse, needsRight is set and needsUp, needsLeft and needsDown are not.
C20_EndToEnd ==
  EndToEndInput =>
    /\ guidance # NULL
    /\ guidance.azimuthDelta = Deg(20)
    /\ guidance.altitudeDelta = Deg(5)
    /\ guidance.isCoarse /\ ~guidance.isFine /\ ~guidance.fullyLocked
    /\ guidance.needsRight
    /\ ~guidance.needsUp /\ ~guidance.needsLeft /\ ~guidance.needsDown

C20_EndToEndReached ==
  /\ EndToEndInput
  /\ guidance # NULL
  /\ guidance.azimuthDelta = Deg(20)
  /\ guidance.needsRight

-----------------------------------------------------------------------------
(* Band order, under SpecGuidance *)

\* Locked = 0, Fine = 1, Coarse = 2
BandRank(g) == IF g.fullyLocked THEN 0 ELSE IF g.isFine THEN 1 ELSE 2

\* C19: of two guidance states with the same azimuthDelta, the one whose
\* altitude error is larger in magnitude is in the same band or a worse one:
\* Coarse stays Coarse and what is not Locked does not become Locked.
C19_BandNeverImprovesWithAltitudeError ==
  [][(/\ ret # NULL /\ ret' # NULL
      /\ ret'.value.azimuthDelta = ret.value.azimuthDelta
      /\ Abs(ret'.value.altitudeDelta) >= Abs(ret.value.altitudeDelta))
     => /\ BandRank(ret'.value) >= BandRank(ret.value)
        /\ ret.value.isCoarse => ret'.value.isCoarse
        /\ ~ret.value.fullyLocked => ~ret'.value.fullyLocked]_vars

C19_CoarseByAltitudeAlone ==
  /\ ret # NULL
  /\ ret.value.azimuthDelta = Deg(LOCK_THRESHOLD)
  /\ ret.value.altitudeDelta = -(Deg(FINE_THRESHOLD) + 1)
  /\ ret.value.isCoarse

-----------------------------------------------------------------------------
(* Capture, under Spec *)

\* the capture button is enabled: SolarTracker.canCapture
isReady == permissionGranted /\ coordinates # NULL /\ correctedSensor # NULL

\* a step that triggers the capture: a press of the capture button with the
\* timer off, or the countdown reaching zero
MeasureStep ==
  \/ (~isTimerEnabled /\ countdown = NULL /\ handleCaptureClick)
  \/ (countdown # NULL /\ countdown.num = 1 /\ countdownTimer)

\* C18, as stated: whenever permission is granted, coordinates are available
\* and a corrected sample exists, triggering the capture produces a pending
\* measurement.
C18_CaptureWheneverSensorsAndGpsReady ==
  [][(isReady /\ MeasureStep) => pendingMeasurement' # NULL]_vars

\* C18, amended: when in addition a target position has been fetched, the
\* triggered capture produces a pending measurement of the current sample and
\* target, whatever the angular error, and sets no error; while no target has
\* been fetched it produces none and sets the error message.
C18_CaptureOnceTargetKnown ==
  [][(isReady /\ MeasureStep) =>
       IF targetPosition # NULL
       THEN /\ pendingMeasurement' # NULL
            /\ pendingMeasurement'.deviceAzimuth = correctedSensor.azimuth
            /\ pendingMeasurement'.deviceAltitude = correctedSensor.altitude
            /\ pendingMeasurement'.targetAzimuth = targetPosition.azimuth
            /\ pendingMeasurement'.targetAltitude = targetPosition.altitude
            /\ error' = error
       ELSE /\ pendingMeasurement' = NULL
            /\ error' # NO_ERROR]_vars

C18_CapturedFarFromTarget ==
  /\ pendingMeasurement # NULL
  /\ guidance # NULL
  /\ ~guidance.canCapture
  /\ pendingMeasurement.deviceAzimuth = correctedSensor.azimuth
  /\ pendingMeasurement.targetAzimuth = targetPosition.azimuth

-----------------------------------------------------------------------------
(* The half-turn case of getShortestAngle, under SpecAngle *)

\* C21: for every pair of azimuths exactly 180 degrees apart the result has
\* absolute value 180 and the same sign for every such pair, whichever of the
\* two is the target: it is -180.
C21_HalfTurnOneSign ==
  (ret # NULL /\ Abs(call.target - call.current) = Deg(180)) =>
    /\ Abs(ret.value) = Deg(180)
    /\ ret.value = getShortestAngle(Deg(180), 0)
    /\ ret.value = getShortestAngle(0, Deg(180))
    /\ ret.value < 0

C21_HalfTurnFromSouth ==
  /\ ret # NULL
  /\ call.target = 0 /\ call.current = Deg(180)
  /\ ret.value = -Deg(180)

-----------------------------------------------------------------------------
(* The quality assessment of a captured measurement, under SpecQuality *)

QualityOffsets ==
  {0, Deg(EXCELLENT_BELOW) - 1, Deg(EXCELLENT_BELOW), Deg(EXCELLENT_BELOW) + 1,
   Deg(GOOD_BELOW) - 1, Deg(GOOD_BELOW), Deg(GOOD_BELOW) + 1}
SignedQualityOffsets == QualityOffsets \cup {-d : d \in QualityOffsets}

\* captured measurements: device on either side of north, target around it
QualityPendings ==
  {[deviceAzimuth |-> a, deviceAltitude |-> 0,
    targetAzimuth |-> (a + d) % Full, targetAltitude |-> h] :
     a \in {0, Deg(359)}, d \in SignedQualityOffsets, h \in SignedQualityOffsets}

InitQuality ==
  /\ call \in {[fn |-> "getQualityAssessment", pending |-> p] : p \in QualityPendings}
  /\ ret = NULL
  /\ Quiescent

applyQualityAssessment ==
  /\ call # NULL
  /\ call.fn = "getQualityAssessment"
  /\ ret = NULL
  /\ ret' = [value |-> getQualityAssessment(call.pending)]
  /\ UNCHANGED <<call, page>>

SpecQuality == InitQuality /\ [][applyQualityAssessment]_vars

\* C22: the assessment of a captured measurement is Excellent iff maxDelta < 3,
\* Good iff 3 <= maxDelta < 10 and Poor iff maxDelta >= 10, exactly one of the
\* three, where maxDelta is the larger of the magnitude of the shortest
\* azimuth rotation and of the altitude difference of the captured values.
C22_QualityFromMaxDelta ==
  ret # NULL =>
    LET p == call.pending
        q == ret.value
        arc == Residue(p.targetAzimuth - p.deviceAzimuth)
        deltaAz == Min2(arc, Full - arc)
        deltaAlt == Abs(p.targetAltitude - p.deviceAltitude)
        maxDelta == Max2(deltaAz, deltaAlt)
    IN /\ q.deltaAz = deltaAz
       /\ q.deltaAlt = deltaAlt
       /\ q.level \in {"excellent", "good", "poor"}
       /\ (q.level = "excellent") <=> (maxDelta < Deg(EXCELLENT_BELOW))
       /\ (q.level = "good") <=>
            (maxDelta >= Deg(EXCELLENT_BELOW) /\ maxDelta < Deg(GOOD_BELOW))
       /\ (q.level = "poor") <=> (maxDelta >= Deg(GOOD_BELOW))

C22_ExcellentAcrossNorth ==
  /\ ret # NULL
  /\ call.pending.deviceAzimuth = Deg(359)
  /\ call.pending.targetAzimuth = Deg(2) - 1
  /\ call.pending.targetAltitude = -(Deg(EXCELLENT_BELOW) - 1)
  /\ ret.value.level = "excellent"

-----------------------------------------------------------------------------
(* The figure-8 progress score, under SpecFigure8 *)

NextFigure8 ==
  \/ startCalibrationSession
  \/ \E a \in RotationRates : \E b \in RotationRates : \E c \in RotationRates :
       motionSample(a, b, c)

SpecFigure8 == InitTracker /\ [][NextFigure8]_vars

\* C23: the progress score is 0 when a session starts, each motion sample
\* makes it min(100, previous + (|a|+|b|+|c|) * ENERGY_MULTIPLIER), so it
\* stays in [0, 100] and never decreases from one sample to the next, and the
\* session is complete exactly when the score is 100.
C23_ProgressBoundedMonotone ==
  /\ [](calibrationProgress # NULL =>
          /\ calibrationProgress.accumulatedEnergy >= 0
          /\ calibrationProgress.accumulatedEnergy <= PROGRESS_MAX * ProgressScale
          /\ calibrationProgress.isComplete <=>
               (calibrationProgress.accumulatedEnergy = PROGRESS_MAX * ProgressScale))
  /\ [][IF call'.fn = "startSession"
        THEN calibrationProgress'.accumulatedEnergy = 0
        ELSE LET prev == calibrationProgress.accumulatedEnergy
                 sum == prev + (Abs(call'.a) + Abs(call'.b) + Abs(call'.c))
                                 * ENERGY_MULTIPLIER
             IN /\ calibrationProgress'.accumulatedEnergy >= prev
                /\ calibrationProgress'.accumulatedEnergy =
                     IF sum < PROGRESS_MAX * ProgressScale THEN sum
                     ELSE PROGRESS_MAX * ProgressScale]_vars

C23_StaysAtHundred ==
  /\ calibrationProgress # NULL
  /\ calibrationProgress.isComplete
  /\ calibrationProgress.accumulatedEnergy = PROGRESS_MAX * ProgressScale
  /\ call.fn = "motionSample"
  /\ call.a = 700 /\ call.b = -400 /\ call.c = 0

-----------------------------------------------------------------------------
(* Review and submission of a captured measurement, under SpecSubmit *)

\* two headings, device upright
SubmitEvents ==
  {e \in TrackerEvents : e.beta = Num(Deg(90))}

\* a body the measurement service answers a save with
SaveResults ==
  {[nasa_azimuth |-> Deg(10), nasa_altitude |-> Deg(5),
    delta_azimuth |-> Deg(1), delta_altitude |-> -Deg(1), created_at |-> T0]}

\* what api.post can reject with: an HTTP error status, no response at all,
\* and an error that is not axios's
PostFailures ==
  {[class |-> "AxiosError", name |-> "AxiosError",
    message |-> "Request failed with status code 429", response |-> Num(429)],
   [class |-> "AxiosError", name |-> "AxiosError",
    message |-> "Request failed with status code 500", response |-> Num(500)],
   [class |-> "AxiosError", name |-> "AxiosError",
    message |-> "Network Error", response |-> NULL],
   [class |-> "Error", name |-> "Error",
    message |-> "The operation is insecure.", response |-> NULL]}

NextSubmit ==
  \/ \E o \in Outcomes : requestAccess(o)
  \/ \E e \in SubmitEvents : handleOrientation(e)
  \/ \E c \in Locations : watchPosition(c)
  \/ \E p \in Targets : fetchTarget(p)
  \/ handleCaptureClick
  \/ discardButton
  \/ backdropClick
  \/ handleSubmit
  \/ \E r \in SaveResults : saveResolved(r)
  \/ \E e \in PostFailures : saveRejected(e)
  \/ dismissError
  \/ reload

SpecSubmit == InitTracker /\ [][NextSubmit]_vars

\* C24: a failed save reaches handleSubmit as a RateLimitError exactly when
\* the HTTP response status is 429, and as the error api.post rejected with in
\* every other case; a RateLimitError has the name 'RateLimitError'; the
\* tracker shows 'Please wait a moment before submitting.' for it and the
\* error's own message for any other error.
C24_RateLimitErrorExactlyOn429 ==
  [][\A e \in PostFailures :
       saveRejected(e) =>
         LET err == call'.thrown
             is429 == e.response = Num(429)
         IN /\ (err.class = "RateLimitError") <=> is429
            /\ is429 => (err = RateLimitError /\ err.name = "RateLimitError")
            /\ ~is429 => err = e
            /\ (error' = "Please wait a moment before submitting.") <=> is429
            /\ ~is429 => error' = e.message]_vars

C24_PleaseWaitShown ==
  /\ call # NULL
  /\ call.fn = "saveMeasurement"
  /\ call.rejected # NULL
  /\ call.rejected.response = Num(429)
  /\ call.thrown = RateLimitError
  /\ error = "Please wait a moment before submitting."
  /\ ~isSubmitting

\* C27, as stated: while a submission is in flight the pending measurement
\* cannot be discarded: it stays non-null until the save resolves.
C27_NoDiscardWhileSubmitting ==
  [][(isSubmitting /\ isSubmitting') => pendingMeasurement' # NULL]_vars

\* C28: a failed save keeps the pending measurement and the snapshot as they
\* were, sets an error message and ends the submission; a snapshot is written
\* only by a successful save, which also clears the pending measurement, and
\* the values sent and shown are those of the measurement as captured: a
\* pending measurement does not change while it is pending.
C28_FailedSaveKeepsPending ==
  /\ [][(\E e \in PostFailures : saveRejected(e)) =>
          /\ pendingMeasurement' = pendingMeasurement
          /\ snapshot' = snapshot
          /\ error' # NO_ERROR
          /\ isSubmitting /\ ~isSubmitting']_vars
  /\ [][(snapshot' # snapshot /\ snapshot' # NULL) =>
          /\ \E r \in SaveResults : saveResolved(r)
          /\ pendingMeasurement' = NULL
          /\ snapshot'.sensor.azimuth = saveRequest.pending.deviceAzimuth
          /\ snapshot'.sensor.altitude = saveRequest.pending.deviceAltitude
          /\ saveRequest.body.device_azimuth = saveRequest.pending.deviceAzimuth
          /\ saveRequest.body.device_altitude = saveRequest.pending.deviceAltitude]_vars
  /\ [][(pendingMeasurement # NULL /\ pendingMeasurement' # NULL) =>
          pendingMeasurement' = pendingMeasurement]_vars
  /\ [][handleSubmit => saveRequest'.pending = pendingMeasurement]_vars

C28_KeptAfterFailureWhileSensorMoved ==
  /\ call # NULL
  /\ call.fn = "saveMeasurement"
  /\ call.rejected # NULL
  /\ call.rejected.response = Num(500)
  /\ pendingMeasurement # NULL
  /\ snapshot = NULL
  /\ error = "Request failed with status code 500"
  /\ ~isSubmitting
  /\ correctedSensor # NULL
  /\ correctedSensor.azimuth # pendingMeasurement.deviceAzimuth

-----------------------------------------------------------------------------
(* The one-time calibration wizard, under SpecWizard *)

InitWizard ==
  /\ HarnessIdle
  /\ storage \in InitialStorage
  /\ calibratedFlag \in BOOLEAN
  /\ Mounted
  /\ now = T0
  /\ captureAt = NULL

NextWizard ==
  \/ handleStartCalibration
  \/ calibrationDurationTimer
  \/ handleComplete
  \/ handleHeaderTap
  \/ Tick
  \/ reload

SpecWizard == InitWizard /\ [][NextWizard]_vars

\* C25: the wizard is visible exactly while the 'helios_calibrated' flag is
\* absent, at mount and afterwards; within a mount its step moves only from
\* intro to calibrating, by the start button, and from calibrating to done, by
\* the duration timer; completing it sets the flag and hides it; and the flag,
\* once set, goes away only by the header-tap reset.
C25_WizardOncePerDevice ==
  /\ [](isVisible <=> ~calibratedFlag)
  /\ [][(ReloadPage \/ (devTapCount >= DEV_TAPS /\ handleHeaderTap)) =>
          (step' = "intro" /\ (isVisible' <=> ~calibratedFlag'))]_vars
  /\ [][step' # step =>
          \/ (step = "intro" /\ step' = "calibrating" /\ handleStartCalibration)
          \/ (step = "calibrating" /\ step' = "done" /\ calibrationDurationTimer)
          \/ (step' = "intro" /\ (ReloadPage \/ handleHeaderTap))]_vars
  /\ [][handleComplete => (step = "done" /\ calibratedFlag' /\ ~isVisible')]_vars
  /\ [][(calibratedFlag /\ ~calibratedFlag') =>
          (devTapCount >= DEV_TAPS /\ handleHeaderTap)]_vars

C25_CompletedAndHidden ==
  /\ step = "done"
  /\ calibratedFlag
  /\ ~isVisible

-----------------------------------------------------------------------------
(* The camera hook, under SpecCamera *)

\* the DOMExceptions getUserMedia rejects with
GetUserMediaErrors ==
  {[name |-> "NotAllowedError", message |-> "Permission denied"],
   [name |-> "NotFoundError", message |-> "Requested device not found"],
   [name |-> "NotReadableError", message |-> "Could not start video source"]}

NextCamera ==
  \/ mountCamera
  \/ handleVisibilityChange
  \/ getUserMediaResolved
  \/ \E e \in GetUserMediaErrors : getUserMediaRejected(e)
  \/ tracksEnded
  \/ unmountCamera

SpecCamera == InitTracker /\ [][NextCamera]_vars

\* C26, as stated: once the component is unmounted and no getUserMedia call
\* is pending, every stream getUserMedia returned has its tracks stopped.
C26_AllTracksStoppedAfterUnmount ==
  (cameraPhase = "unmounted" /\ pendingGetUserMedia = 0) =>
    \A i \in 1..Len(mediaStreams) : mediaStreams[i] # "live"

-----------------------------------------------------------------------------
(* The self-timer, under Spec *)

\* handleMeasure ran: it stored a measurement or set its error
CaptureAttempted ==
  \/ pendingMeasurement' # NULL
  \/ error' = "GPS, sensors, and target position must be ready before capturing"

\* C29: with the timer enabled a press of capture starts the countdown at 5;
\* the countdown changes from one value to another only by the timer, one
\* down at a time; a press during the countdown clears it without a capture
\* attempt; the timer firing at the last second makes one capture attempt and
\* clears the countdown; and while a countdown runs the timer toggle stays as
\* it is, enabled.
C29_SelfTimerCountdown ==
  /\ [](countdown # NULL =>
          (isTimerEnabled /\ countdown.num >= 1 /\ countdown.num <= COUNTDOWN_FROM
           /\ pendingMeasurement = NULL))
  /\ [][(isTimerEnabled /\ countdown = NULL /\ handleCaptureClick) =>
          (countdown' = Num(COUNTDOWN_FROM) /\ pendingMeasurement' = NULL
           /\ error' = error)]_vars
  /\ [][(countdown # NULL /\ countdown' # NULL) =>
          /\ isTimerEnabled' = isTimerEnabled
          /\ pendingMeasurement' = pendingMeasurement
          /\ countdown' # countdown =>
               (countdownTimer /\ countdown'.num = countdown.num - 1)]_vars
  /\ [][(countdown # NULL /\ countdown' = NULL) =>
          \/ /\ handleCaptureClick
             /\ pendingMeasurement' = NULL /\ error' = error
             /\ isTimerEnabled' = isTimerEnabled
          \/ /\ countdownTimer /\ countdown.num = 1
             /\ CaptureAttempted
             /\ isTimerEnabled' = isTimerEnabled
          \/ ReloadPage]_vars

C29_LastSecondOfCountdown ==
  /\ countdown # NULL
  /\ countdown.num = 1
  /\ isTimerEnabled
  /\ pendingMeasurement = NULL
  /\ targetPosition # NULL


-----------------------------------------------------------------------------
(* The permission gate of the sensor hook, under SpecPipeline *)

\* C30: within one page load, permissionGranted starts false, becomes true
\* only by a requestAccess whose prompt answered 'granted' or that found no
\* permission API, and never returns to false; while it is false no sample
\* has been delivered (the raw and the level-corrected data are null); a
\* denied or throwing requestAccess sets an error and leaves it false.  A
\* page reload mounts the hook anew, with permissionGranted false and no data.
C30_PermissionGateOneWay ==
  /\ ~permissionGranted
  /\ [](~permissionGranted => (rawData = NULL /\ sensorData = NULL))
  /\ [][(~permissionGranted /\ permissionGranted') =>
          \E o \in {"granted", "noPermissionAPI"} : requestAccess(o)]_vars
  /\ [][(permissionGranted /\ ~permissionGranted') => ReloadPage]_vars
  /\ [][\A o \in {"denied", "threw"} :
          requestAccess(o) => (~permissionGranted' /\ sensorError' # NO_ERROR)]_vars

C30_SampleAfterGrant ==
  /\ permissionGranted /\ sensorError = NO_ERROR
  /\ rawData # NULL /\ sensorData # NULL

=============================================================================
